---- MODULE Spec2Model ----
(***************************************************************************)
(* Model of graph-craft's TaggedValue registry (document/value.rs): the    *)
(* tagged_value! macro expansion (erasure, recovery, type-of, defaults),   *)
(* the manual Hash implementation with the FakeHash float canonicalisation *)
(* and RenderOutput.                                                       *)
(***************************************************************************)
EXTENDS Integers, Sequences, FiniteSets, TLC

VARIABLES
    container,   \* the erased container last produced (Box<dyn DynAny> or Arc<dyn Any>)
    erased,      \* the TaggedValue the container was produced from ("foreign" otherwise)
    recovered,   \* the Result of the last try_from_any / try_from_std_any_ref
    input,       \* the Type descriptor last passed to from_type
    defaulted,   \* the Option returned by the last from_type
    hashed,      \* the two TaggedValues last fed to Hash::hash
    state,       \* the data each of the two hashers received, in write order
    parsed,      \* the last from_primitive_string call: its arguments, its Option and its log records
    rendered,    \* the last to_primitive_string call: its receiver and the String or panic
    node,        \* the UpcastNode constructed last, None before
    futures,     \* the futures its eval calls returned and the caller still holds
    frame,       \* the last FrameBufferRef::new call: its arguments, the build and the outcome
    app,         \* the WinitApp: window, cef_schedule, graphics_state
    loop,        \* the winit event loop: the clock, the control flow, pending redraw, running or not
    executor,    \* the node graph executor: the application-io swap and the evaluation poll in progress
    handler,     \* the WinitApp callback the event-loop thread is inside, "none" between callbacks
    last,        \* what the callback that returned last did
    graphics,    \* a GraphicsState that is called directly
    bound,       \* the texture the last bind_ui_texture call was given, and the last bind_viewport_texture call
    drawn        \* the last render call on graphics: what it found and what it did

\* the variables of the literal-text operations
textVars == <<parsed, rendered>>
\* the variables of the value-upcast adapter
nodeVars == <<node, futures>>
\* the variables of the desktop frame buffer
frameVars == <<frame>>
\* the variables of the desktop application
appVars == <<app, loop, executor, handler, last>>
\* the variables of a GraphicsState driven call by call
graphicsVars == <<graphics, bound, drawn>>

vars == <<container, erased, recovered, input, defaulted, hashed, state, textVars, nodeVars, frameVars, appVars, graphicsVars>>

-----------------------------------------------------------------------------
(* Bounds of the model.                                                    *)

\* longest Vec payload / string enumerated
MaxLen == 2
\* deepest nesting of Fn / Future around a descriptor
MaxDepth == 1
\* most futures of one UpcastNode held at a time
MaxFutures == 2
\* latest reading of the clock, in units of 10 ms
MaxTime == 2

-----------------------------------------------------------------------------
(* f64 values, kept as their IEEE-754 fields.                              *)

Float(s, e, mh, ml) == [sign |-> s, exp |-> e, mant_hi |-> mh, mant_lo |-> ml]

PosZero    == Float(0, 0, 0, 0)
NegZero    == Float(1, 0, 0, 0)
One        == Float(0, 1023, 0, 0)
OnePlusEps == Float(0, 1023, 0, 1)
QuietNaN   == Float(0, 2047, 524288, 0)
PayloadNaN == Float(0, 2047, 524288, 1)

\* the f64 payloads enumerated for TaggedValue::F64
FloatVals == {PosZero, NegZero, One, OnePlusEps, QuietNaN, PayloadNaN}
\* the f64 components enumerated inside composite payloads
CompFloats == {PosZero, NegZero, QuietNaN}

IsNaN(f) == f.exp = 2047 /\ (f.mant_hi # 0 \/ f.mant_lo # 0)
IsZero(f) == f.exp = 0 /\ f.mant_hi = 0 /\ f.mant_lo = 0

\* f64::eq (IEEE comparison): NaN equals nothing, the two zeros are equal
FloatEq(a, b) == /\ ~IsNaN(a)
                 /\ ~IsNaN(b)
                 /\ (a = b \/ (IsZero(a) /\ IsZero(b)))

\* f64::to_bits as the u64 <<bits 63..52, bits 51..32, bits 31..0>>
to_bits(f) == <<f.sign * 2048 + f.exp, f.mant_hi, f.mant_lo>>

\* a (small) u64 in the same three-word layout
U64Bits(n) == <<0, 0, n>>

-----------------------------------------------------------------------------
(* The tagged_value! invocation: <<variant identifier, payload type>> in   *)
(* declaration order.  A payload type is named by its canonical path, so   *)
(* two spellings of one type (Color, graphene_core::raster::color::Color)  *)
(* are one type identity.                                                  *)

Registered == <<
    <<"F64", "f64">>,
    <<"U32", "u32">>,
    <<"U64", "u64">>,
    <<"Bool", "bool">>,
    <<"String", "String">>,
    <<"DVec2", "DVec2">>,
    <<"DAffine2", "DAffine2">>,
    <<"OptionalF64", "Option<f64>">>,
    <<"OptionalDVec2", "Option<DVec2>">>,
    <<"VecF64", "Vec<f64>">>,
    <<"VecU64", "Vec<u64>">>,
    <<"VecDVec2", "Vec<DVec2>">>,
    <<"F64Array4", "[f64; 4]">>,
    <<"NodePath", "Vec<NodeId>">>,
    <<"PointIds", "Vec<PointId>">>,
    <<"GraphicElement", "GraphicElement">>,
    <<"VectorData", "VectorDataTable">>,
    <<"RasterData", "RasterDataTable<CPU>">>,
    <<"GraphicGroup", "GraphicGroupTable">>,
    <<"ArtboardGroup", "ArtboardGroupTable">>,
    <<"Artboard", "Artboard">>,
    <<"Image", "Image<Color>">>,
    <<"Color", "Color">>,
    <<"OptionalColor", "Option<Color>">>,
    <<"Palette", "Vec<Color>">>,
    <<"Subpaths", "Vec<Subpath<PointId>>">>,
    <<"Fill", "Fill">>,
    <<"Stroke", "Stroke">>,
    <<"Gradient", "Gradient">>,
    <<"GradientStops", "GradientStops">>,
    <<"Font", "Font">>,
    <<"BrushStrokes", "Vec<BrushStroke>">>,
    <<"BrushCache", "BrushCache">>,
    <<"DocumentNode", "DocumentNode">>,
    <<"Curve", "Curve">>,
    <<"Footprint", "Footprint">>,
    <<"VectorModification", "Box<VectorModification>">>,
    <<"FontCache", "Arc<FontCache>">>,
    <<"BlendMode", "BlendMode">>,
    <<"LuminanceCalculation", "LuminanceCalculation">>,
    <<"XY", "XY">>,
    <<"RedGreenBlue", "RedGreenBlue">>,
    <<"RedGreenBlueAlpha", "RedGreenBlueAlpha">>,
    <<"RealTimeMode", "RealTimeMode">>,
    <<"NoiseType", "NoiseType">>,
    <<"FractalType", "FractalType">>,
    <<"CellularDistanceFunction", "CellularDistanceFunction">>,
    <<"CellularReturnType", "CellularReturnType">>,
    <<"DomainWarpType", "DomainWarpType">>,
    <<"RelativeAbsolute", "RelativeAbsolute">>,
    <<"SelectiveColorChoice", "SelectiveColorChoice">>,
    <<"GridType", "GridType">>,
    <<"ArcType", "ArcType">>,
    <<"MergeByDistanceAlgorithm", "MergeByDistanceAlgorithm">>,
    <<"PointSpacingType", "PointSpacingType">>,
    <<"StrokeCap", "StrokeCap">>,
    <<"StrokeJoin", "StrokeJoin">>,
    <<"StrokeAlign", "StrokeAlign">>,
    <<"PaintOrder", "PaintOrder">>,
    <<"FillType", "FillType">>,
    <<"FillChoice", "FillChoice">>,
    <<"GradientType", "GradientType">>,
    <<"ReferencePoint", "ReferencePoint">>,
    <<"CentroidType", "CentroidType">>,
    <<"BooleanOperation", "BooleanOperation">>,
    <<"TextAlign", "TextAlign">>
>>

NumRegistered == Len(Registered)

\* the enum TaggedValue: None, the macro-listed variants, then the three fixed ones
Variants == <<"None">> \o [i \in 1..NumRegistered |-> Registered[i][1]]
                \o <<"RenderOutput", "SurfaceFrame", "EditorApi">>

NumVariants == Len(Variants)

\* core::mem::discriminant: the position of the variant in the enum, from 0
discriminant(v) == (CHOOSE i \in 1..NumVariants : Variants[i] = v.variant) - 1

\* the type of the payload a variant owns (the x of Self::V(x))
PayloadType(variant) ==
    CASE variant = "None" -> "()"
      [] variant = "RenderOutput" -> "RenderOutput"
      [] variant = "SurfaceFrame" -> "SurfaceFrame"
      [] variant = "EditorApi" -> "Arc<WasmEditorApi>"
      [] OTHER -> Registered[CHOOSE i \in 1..NumRegistered : Registered[i][1] = variant][2]

-----------------------------------------------------------------------------
(* Payloads enumerated per payload type: strings are byte sequences, an    *)
(* Option is <<>> or <<x>>, a Vec is a sequence, a Color is its four 8-bit *)
(* channels, and a payload of another type defined outside value.rs is an  *)
(* opaque token.                                                           *)

SeqsUpTo(S, n) == UNION {[1..k -> S] : k \in 0..n}

DVec2Vals == {<<x, y>> : x \in CompFloats, y \in CompFloats}
DVec2Some == {<<PosZero, PosZero>>, <<NegZero, PosZero>>}
IDENTITY  == <<One, PosZero, PosZero, One, PosZero, PosZero>>
DAffine2Vals == {IDENTITY, <<One, NegZero, PosZero, One, PosZero, PosZero>>,
                 <<One, QuietNaN, PosZero, One, PosZero, PosZero>>}
Array4Vals == {<<PosZero, PosZero, PosZero, PosZero>>, <<PosZero, NegZero, PosZero, PosZero>>,
               <<QuietNaN, PosZero, PosZero, PosZero>>}
Option(S) == {<<>>} \cup {<<x>> : x \in S}
Opaque == {<<0>>, <<1>>}
RenderOutputTypes == {[kind |-> "Image", bytes |-> b] : b \in SeqsUpTo({0, 255}, 1)}
                        \cup {[kind |-> "Svg", svg |-> s] : s \in SeqsUpTo({97}, 1)}
RenderOutputs == {[data |-> d, metadata |-> m] : d \in RenderOutputTypes, m \in Opaque}

PayloadsOf(ty) ==
    CASE ty = "()" -> {<<>>}
      [] ty = "f64" -> FloatVals
      [] ty = "u32" -> {<<0>>, <<1>>}
      [] ty = "u64" -> {<<0>>, <<1>>}
      [] ty = "bool" -> {<<0>>, <<1>>}
      [] ty = "String" -> SeqsUpTo({97}, MaxLen)
      [] ty = "DVec2" -> DVec2Vals
      [] ty = "DAffine2" -> DAffine2Vals
      [] ty = "Option<f64>" -> Option(CompFloats)
      [] ty = "Option<DVec2>" -> Option(DVec2Vals)
      [] ty = "Vec<f64>" -> SeqsUpTo(CompFloats, MaxLen)
      [] ty = "Vec<u64>" -> SeqsUpTo({0, 1}, MaxLen)
      [] ty = "Vec<DVec2>" -> SeqsUpTo(DVec2Some, MaxLen)
      [] ty = "[f64; 4]" -> Array4Vals
      [] ty = "RenderOutput" -> RenderOutputs
      [] ty = "Color" -> {<<0, 0, 0, 255>>, <<255, 0, 0, 255>>}
      [] OTHER -> Opaque

\* <T as Default>::default() of a macro-listed payload type
Default(ty) ==
    CASE ty = "f64" -> PosZero
      [] ty = "DVec2" -> <<PosZero, PosZero>>
      [] ty = "DAffine2" -> IDENTITY
      [] ty = "[f64; 4]" -> <<PosZero, PosZero, PosZero, PosZero>>
      [] ty \in {"String", "Option<f64>", "Option<DVec2>", "Vec<f64>", "Vec<u64>", "Vec<DVec2>"} -> <<>>
      [] OTHER -> <<0>>

TaggedValue(variant, payload) == [variant |-> variant, payload |-> payload]

\* structural identity of two TaggedValues (the variant is compared first)
Same(a, b) == a.variant = b.variant /\ a.payload = b.payload

\* Option<T> / Result<T, E> values of the operations
None == <<>>
Some(x) == <<x>>
Ok(v) == [tag |-> "Ok", value |-> v]
Err(msg) == [tag |-> "Err", msg |-> msg]

-----------------------------------------------------------------------------
(* Type descriptors (graphene_core::Type) and concrete!.                   *)

Generic(n) == [kind |-> "Generic", id |-> None, name |-> n, output |-> None]
Concrete(id, n) == [kind |-> "Concrete", id |-> id, name |-> n, output |-> None]
Fn(out) == [kind |-> "Fn", id |-> None, name |-> "", output |-> Some(out)]
Future(out) == [kind |-> "Future", id |-> None, name |-> "", output |-> Some(out)]

\* concrete!(T): the descriptor carrying TypeId::of::<T>() and type_name::<T>()
concrete(T) == Concrete(Some(T), T)

-----------------------------------------------------------------------------
(* Erasure: to_dynany, to_any, ty.                                         *)

\* a type-erased container with the runtime identity and name of its content
Container(kind, T, x) == [kind |-> kind, type_id |-> T, type_name |-> T, content |-> x]

\* TaggedValue::to_dynany: Box::new(x) of the payload (Box::new(()) for None)
to_dynany(v) == Container("dyn", PayloadType(v.variant), v.payload)

\* TaggedValue::to_any: Arc::new(x) of the payload (Arc::new(()) for None)
to_any(v) == Container("any", PayloadType(v.variant), v.payload)

\* TaggedValue::ty: concrete!($ty), and concrete!(&WasmEditorApi) for EditorApi
ty(v) == IF v.variant = "EditorApi" THEN concrete("&WasmEditorApi")
         ELSE concrete(PayloadType(v.variant))

-----------------------------------------------------------------------------
(* Recovery: try_from_any, try_from_std_any_ref.                           *)

\* the match arms of both recovery functions, in source order
RecoveryArms == <<<<"None", "()">>>> \o Registered
                    \o <<<<"RenderOutput", "RenderOutput">>, <<"SurfaceFrame", "SurfaceFrame">>>>

\* index of the first arm whose guard x == TypeId::of::<$ty>() holds, 0 for the `_` arm
FirstArm(arms, id) ==
    IF \E i \in 1..Len(arms) : arms[i][2] = id
    THEN CHOOSE i \in 1..Len(arms) : arms[i][2] = id /\ \A j \in 1..(i - 1) : arms[j][2] # id
    ELSE 0

\* format!("Cannot convert {:?} to TaggedValue", name) as its pieces
CannotConvert(name) == <<"Cannot convert ", "\"", name, "\"", " to TaggedValue">>

\* DynAny::type_name(input.as_ref()): the name of the boxed type
DynAny_type_name(c) == c.type_name

\* std::any::type_name_of_val(input) with input: &dyn Any names the static type
type_name_of_val(c) == "dyn core::any::Any"

try_from_any(c) ==
    LET i == FirstArm(RecoveryArms, c.type_id)
    IN  IF i = 0 THEN Err(CannotConvert(DynAny_type_name(c)))
        ELSE IF i = 1 THEN Ok(TaggedValue("None", <<>>))
        ELSE Ok(TaggedValue(RecoveryArms[i][1], c.content))

try_from_std_any_ref(c) ==
    LET i == FirstArm(RecoveryArms, c.type_id)
    IN  IF i = 0 THEN Err(CannotConvert(type_name_of_val(c)))
        ELSE IF i = 1 THEN Ok(TaggedValue("None", <<>>))
        ELSE Ok(TaggedValue(RecoveryArms[i][1], c.content))

-----------------------------------------------------------------------------
(* Defaults: from_type, from_type_or_none.                                 *)

\* the arms of from_type's inner match: unit, then the macro-listed types
DefaultArms == <<<<"None", "()">>>> \o Registered

\* mutant: the unit arm of the inner match is missing
RECURSIVE from_type_no_unit(_)
from_type_no_unit(t) ==
    CASE t.kind = "Generic" -> None
      [] t.kind = "Concrete" ->
            IF t.id = None THEN None
            ELSE LET i == FirstArm(Registered, t.id[1])
                 IN  IF i = 0 THEN None
                     ELSE Some(TaggedValue(Registered[i][1], Default(Registered[i][2])))
      [] t.kind = "Fn" -> from_type_no_unit(t.output[1])
      [] t.kind = "Future" -> from_type_no_unit(t.output[1])

\* mutant: the `_` arm falls back to TaggedValue::None instead of returning None
RECURSIVE from_type_fallback(_)
from_type_fallback(t) ==
    CASE t.kind = "Generic" -> None
      [] t.kind = "Concrete" ->
            IF t.id = None THEN None
            ELSE LET i == FirstArm(DefaultArms, t.id[1])
                 IN  IF i <= 1 THEN Some(TaggedValue("None", <<>>))
                     ELSE Some(TaggedValue(DefaultArms[i][1], Default(DefaultArms[i][2])))
      [] t.kind = "Fn" -> from_type_fallback(t.output[1])
      [] t.kind = "Future" -> from_type_fallback(t.output[1])

RECURSIVE from_type(_)
from_type(t) ==
    CASE t.kind = "Generic" -> None
      [] t.kind = "Concrete" ->
            IF t.id = None THEN None
            ELSE LET i == FirstArm(DefaultArms, t.id[1])
                 IN  IF i = 0 THEN None
                     ELSE IF i = 1 THEN Some(TaggedValue("None", <<>>))
                     ELSE Some(TaggedValue(DefaultArms[i][1], Default(DefaultArms[i][2])))
      [] t.kind = "Fn" -> from_type(t.output[1])
      [] t.kind = "Future" -> from_type(t.output[1])

from_type_or_none(t) ==
    IF from_type(t) = None THEN TaggedValue("None", <<>>) ELSE from_type(t)[1]

-----------------------------------------------------------------------------
(* Hashing.  A hasher state is the sequence of writes it has received,     *)
(* each <<width in bytes, data>>.                                          *)

write(st, width, data) == Append(st, <<width, data>>)

Hash_isize(n, st) == write(st, 8, U64Bits(n))
Hash_usize(n, st) == write(st, 8, U64Bits(n))
Hash_u64(bits, st) == write(st, 8, bits)
Hash_u32(n, st) == write(st, 4, <<n>>)
Hash_i32(n, st) == write(st, 4, <<n>>)
Hash_u8(n, st) == write(st, 1, <<n>>)
\* str: the bytes, then 0xff
Hash_str(bytes, st) == write(st, Len(bytes) + 1, bytes \o <<255>>)
\* Vec<u8> / [u8]: the length, then the bytes in one write
Hash_bytes(bytes, st) == write(Hash_usize(Len(bytes), st), Len(bytes), bytes)

\* #[derive(Hash)] of a payload type defined outside value.rs
StructuralHash(x, st) == write(st, 0, x)

\* the payload types whose x.hash(state) resolves to FakeHash (they have no Hash impl)
FakeHashTypes == {"f64", "DVec2", "DAffine2", "Option<f64>", "Option<DVec2>",
                  "Vec<f64>", "Vec<DVec2>", "[f64; 4]"}

\* the X of Option<X>, Vec<X>, [X; N]
Inner(T) == CASE T \in {"Option<f64>", "Vec<f64>", "[f64; 4]"} -> "f64"
              [] T \in {"Option<DVec2>", "Vec<DVec2>"} -> "DVec2"
              [] T = "Vec<u64>" -> "u64"

RECURSIVE FakeHash(_, _, _)
RECURSIVE for_each_hash(_, _, _)

\* mutant: the float is hashed through its f32 rounding, dropping the low mantissa bits
FakeHash_f64_lossy(x, st) == Hash_u64(<<x.sign * 2048 + x.exp, x.mant_hi, 0>>, st)

\* impl FakeHash for f64
FakeHash_f64(x, st) == Hash_u64(to_bits(x), st)

\* iter().for_each(|x| x.to_bits().hash(state))
RECURSIVE for_each_to_bits(_, _)
for_each_to_bits(xs, st) ==
    IF xs = <<>> THEN st ELSE for_each_to_bits(Tail(xs), Hash_u64(to_bits(Head(xs)), st))

\* impl FakeHash for DVec2
FakeHash_DVec2(v, st) == for_each_to_bits(v, st)

\* impl FakeHash for DAffine2
FakeHash_DAffine2(m, st) == for_each_to_bits(m, st)

\* impl<X: FakeHash> FakeHash for Option<X>
FakeHash_Option(X, o, st) ==
    IF o # None THEN FakeHash(X, o[1], Hash_i32(1, st)) ELSE Hash_i32(0, st)

\* mutant: the length prefix is not written
FakeHash_Vec_no_len(X, xs, st) == for_each_hash(X, xs, st)

\* impl<X: FakeHash> FakeHash for Vec<X>
FakeHash_Vec(X, xs, st) == for_each_hash(X, xs, Hash_usize(Len(xs), st))

\* impl<T: FakeHash, const N: usize> FakeHash for [T; N]
FakeHash_Array(X, xs, st) == for_each_hash(X, xs, st)

\* iter().for_each(|x| x.hash(state))
for_each_hash(X, xs, st) ==
    IF xs = <<>> THEN st ELSE for_each_hash(X, Tail(xs), FakeHash(X, Head(xs), st))

\* x.hash(state) for a payload of a FakeHash type T
FakeHash(T, x, st) ==
    CASE T = "f64" -> FakeHash_f64(x, st)
      [] T = "DVec2" -> FakeHash_DVec2(x, st)
      [] T = "DAffine2" -> FakeHash_DAffine2(x, st)
      [] T \in {"Option<f64>", "Option<DVec2>"} -> FakeHash_Option(Inner(T), x, st)
      [] T \in {"Vec<f64>", "Vec<DVec2>"} -> FakeHash_Vec(Inner(T), x, st)
      [] T = "[f64; 4]" -> FakeHash_Array(Inner(T), x, st)

\* #[derive(Hash)] enum RenderOutputType: the discriminant, then the fields
RenderOutputType_hash(d, st) ==
    CASE d.kind = "Svg" -> Hash_usize(0, Hash_str(d.svg, Hash_isize(2, st)))
      [] d.kind = "Image" -> Hash_bytes(d.bytes, Hash_isize(3, st))

\* mutant: the metadata is hashed too
RenderOutput_hash_all(x, st) == StructuralHash(x.metadata, RenderOutputType_hash(x.data, st))

\* impl Hash for RenderOutput
RenderOutput_hash(x, st) == RenderOutputType_hash(x.data, st)

RECURSIVE for_each_u64(_, _)
for_each_u64(xs, st) ==
    IF xs = <<>> THEN st ELSE for_each_u64(Tail(xs), Hash_u64(U64Bits(Head(xs)), st))

\* x.hash(state) of a payload x of type T, as method resolution picks it
payload_hash(T, x, st) ==
    CASE T \in FakeHashTypes -> FakeHash(T, x, st)
      [] T = "u32" -> Hash_u32(x[1], st)
      [] T = "u64" -> Hash_u64(U64Bits(x[1]), st)
      [] T = "bool" -> Hash_u8(x[1], st)
      [] T = "String" -> Hash_str(x, st)
      [] T = "Vec<u64>" -> for_each_u64(x, Hash_usize(Len(x), st))
      [] T = "RenderOutput" -> RenderOutput_hash(x, st)
      [] OTHER -> StructuralHash(x, st)

\* mutant: the discriminant is not written
TaggedValue_hash_payload_only(v, st) ==
    IF v.variant = "None" THEN st
    ELSE payload_hash(PayloadType(v.variant), v.payload, st)

\* impl Hash for TaggedValue: the discriminant, then the payload
TaggedValue_hash(v, st) ==
    LET s1 == Hash_isize(discriminant(v), st)
    IN  IF v.variant = "None" THEN s1
        ELSE payload_hash(PayloadType(v.variant), v.payload, s1)

-----------------------------------------------------------------------------
(* #[derive(PartialEq)] of TaggedValue and of its payload types.           *)

RECURSIVE payload_eq(_, _, _)
payload_eq(T, x, y) ==
    CASE T = "f64" -> FloatEq(x, y)
      [] T \in {"DVec2", "DAffine2"} -> \A i \in 1..Len(x) : FloatEq(x[i], y[i])
      [] T \in {"Option<f64>", "Option<DVec2>", "Vec<f64>", "Vec<DVec2>", "[f64; 4]"} ->
            /\ Len(x) = Len(y)
            /\ \A i \in 1..Len(x) : payload_eq(Inner(T), x[i], y[i])
      [] OTHER -> x = y

TaggedValue_eq(a, b) ==
    /\ a.variant = b.variant
    /\ payload_eq(PayloadType(a.variant), a.payload, b.payload)

-----------------------------------------------------------------------------
(* Text.  A &str / String is the sequence of its bytes (the alphabet used  *)
(* is ASCII), so the String payloads above and the literals parsed below   *)
(* are one representation.                                                 *)

\* <<character, byte>> of the characters the literals below are written with
CharTable == <<
    <<" ", 32>>, <<"\"", 34>>, <<"#", 35>>, <<"(", 40>>, <<")", 41>>, <<"+", 43>>,
    <<",", 44>>, <<"-", 45>>, <<".", 46>>, <<"0", 48>>, <<"1", 49>>, <<"2", 50>>,
    <<"3", 51>>, <<"4", 52>>, <<"5", 53>>, <<"6", 54>>, <<"7", 55>>, <<"8", 56>>,
    <<"9", 57>>, <<":", 58>>, <<"A", 65>>, <<"B", 66>>, <<"C", 67>>, <<"D", 68>>,
    <<"E", 69>>, <<"F", 70>>, <<"G", 71>>, <<"H", 72>>, <<"I", 73>>, <<"J", 74>>,
    <<"K", 75>>, <<"L", 76>>, <<"M", 77>>, <<"N", 78>>, <<"O", 79>>, <<"P", 80>>,
    <<"Q", 81>>, <<"R", 82>>, <<"S", 83>>, <<"T", 84>>, <<"U", 85>>, <<"V", 86>>,
    <<"W", 87>>, <<"X", 88>>, <<"Y", 89>>, <<"Z", 90>>, <<"_", 95>>, <<"a", 97>>,
    <<"b", 98>>, <<"c", 99>>, <<"d", 100>>, <<"e", 101>>, <<"f", 102>>, <<"g", 103>>,
    <<"h", 104>>, <<"i", 105>>, <<"j", 106>>, <<"k", 107>>, <<"l", 108>>, <<"m", 109>>,
    <<"n", 110>>, <<"o", 111>>, <<"p", 112>>, <<"q", 113>>, <<"r", 114>>, <<"s", 115>>,
    <<"t", 116>>, <<"u", 117>>, <<"v", 118>>, <<"w", 119>>, <<"x", 120>>, <<"y", 121>>,
    <<"z", 122>>, <<"{", 123>>, <<"}", 125>>
>>

Byte(c) == CharTable[CHOOSE i \in 1..Len(CharTable) : CharTable[i][1] = c][2]

\* the bytes of a literal written as its characters
S(chars) == [i \in 1..Len(chars) |-> Byte(chars[i])]

\* char::is_whitespace on the ASCII range
is_whitespace(b) == b \in {9, 10, 11, 12, 13, 32}
is_digit(b) == b >= 48 /\ b <= 57
is_hex_digit(b) == is_digit(b) \/ (b >= 65 /\ b <= 70) \/ (b >= 97 /\ b <= 102)

RECURSIVE trim_start(_)
trim_start(s) ==
    IF s # <<>> /\ is_whitespace(Head(s)) THEN trim_start(Tail(s)) ELSE s

RECURSIVE trim_end(_)
trim_end(s) ==
    IF s # <<>> /\ is_whitespace(s[Len(s)]) THEN trim_end(SubSeq(s, 1, Len(s) - 1)) ELSE s

\* str::trim
trim(s) == trim_end(trim_start(s))

\* str::trim_start_matches(c): every leading c is removed
RECURSIVE trim_start_matches(_, _)
trim_start_matches(s, c) ==
    IF s # <<>> /\ Head(s) = c THEN trim_start_matches(Tail(s), c) ELSE s

RECURSIVE trim_end_matches(_, _)
trim_end_matches(s, c) ==
    IF s # <<>> /\ s[Len(s)] = c THEN trim_end_matches(SubSeq(s, 1, Len(s) - 1), c) ELSE s

\* str::trim_matches(c): every leading and trailing c is removed
trim_matches(s, c) == trim_end_matches(trim_start_matches(s, c), c)

starts_with(s, c) == s # <<>> /\ Head(s) = c
ends_with(s, c) == s # <<>> /\ s[Len(s)] = c

\* str::split(pat) collected: the pieces between the leftmost non-overlapping matches
RECURSIVE split(_, _)
split(s, pat) ==
    LET n == Len(pat)
        hits == {i \in 1..(Len(s) - n + 1) : SubSeq(s, i, i + n - 1) = pat}
    IN  IF hits = {} THEN <<s>>
        ELSE LET i == CHOOSE h \in hits : \A k \in hits : h <= k
             IN  <<SubSeq(s, 1, i - 1)>> \o split(SubSeq(s, i + n, Len(s)), pat)

\* the value of a run of decimal digits
RECURSIVE digits_value(_)
digits_value(s) ==
    IF s = <<>> THEN 0 ELSE digits_value(SubSeq(s, 1, Len(s) - 1)) * 10 + (s[Len(s)] - 48)

all_digits(s) == s # <<>> /\ \A i \in 1..Len(s) : is_digit(s[i])

\* <u32 as FromStr>::from_str / <u64 as FromStr>::from_str: an optional '+',
\* then decimal digits (the literals enumerated stay far below the type's MAX)
unsigned_from_str(s) ==
    LET digits == IF starts_with(s, 43) THEN Tail(s) ELSE s
    IN  IF all_digits(digits) THEN Some(<<digits_value(digits)>>) ELSE None

\* <bool as FromStr>::from_str
bool_from_str(s) ==
    IF s = S(<<"t", "r", "u", "e">>) THEN Some(<<1>>)
    ELSE IF s = S(<<"f", "a", "l", "s", "e">>) THEN Some(<<0>>)
    ELSE None

\* the largest power of two not above n (n >= 1), as its exponent
RECURSIVE floor_log2(_)
floor_log2(n) == IF n < 2 THEN 0 ELSE 1 + floor_log2(n \div 2)

RECURSIVE pow2(_)
pow2(k) == IF k = 0 THEN 1 ELSE 2 * pow2(k - 1)

\* the f64 of a whole number below 2^20 and a sign
float_of_whole(sign, n) ==
    IF n = 0 THEN Float(sign, 0, 0, 0)
    ELSE LET k == floor_log2(n)
         IN  Float(sign, 1023 + k, (n - pow2(k)) * pow2(20 - k), 0)

to_ascii_lowercase(s) == [i \in 1..Len(s) |-> IF s[i] >= 65 /\ s[i] <= 90 THEN s[i] + 32 ELSE s[i]]

\* <f64 as FromStr>::from_str on the literals enumerated: an optional sign, then
\* "nan", "inf", "infinity" in any case, or digits with an optional ".0...";
\* literals with a fraction or an exponent are not enumerated
f64_from_str(s) ==
    LET neg == starts_with(s, 45)
        body == IF starts_with(s, 45) \/ starts_with(s, 43) THEN Tail(s) ELSE s
        sign == IF neg THEN 1 ELSE 0
        parts == split(body, <<46>>)
        word == to_ascii_lowercase(body)
    IN  IF word = S(<<"n", "a", "n">>) THEN Some(Float(sign, 2047, 524288, 0))
        ELSE IF word \in {S(<<"i", "n", "f">>), S(<<"i", "n", "f", "i", "n", "i", "t", "y">>)}
             THEN Some(Float(sign, 2047, 0, 0))
        ELSE IF Len(parts) = 1 /\ all_digits(parts[1])
             THEN Some(float_of_whole(sign, digits_value(parts[1])))
        ELSE IF /\ Len(parts) = 2
                /\ all_digits(parts[1])
                /\ \A i \in 1..Len(parts[2]) : parts[2][i] = 48
             THEN Some(float_of_whole(sign, digits_value(parts[1])))
        ELSE None

-----------------------------------------------------------------------------
(* Literal text: from_primitive_string and to_primitive_string.  A Color   *)
(* is its four 8-bit channels <<red, green, blue, alpha>>.                 *)

\* what a call leaves behind: the Option it returns and the log::error! records it made
Parsed(value, log) == [value |-> value, log |-> log]

\* Option::map(TaggedValue::V)
map(opt, variant) == IF opt = None THEN None ELSE Some(TaggedValue(variant, opt[1]))

\* fn to_dvec2: the first two pieces between commas, each trimmed and parsed
to_dvec2(text) ==
    LET pieces == split(text, <<44>>)
        x == f64_from_str(trim(pieces[1]))
    IN  IF x = None THEN None
        ELSE IF Len(pieces) < 2 THEN None
        ELSE LET y == f64_from_str(trim(pieces[2]))
             IN  IF y = None THEN None ELSE Some(<<x[1], y[1]>>)

hex_value(b) == IF is_digit(b) THEN b - 48 ELSE IF b >= 97 THEN b - 87 ELSE b - 55

\* two hex digits read as a u8
hex_pair(s, i) == hex_value(s[i]) * 16 + hex_value(s[i + 1])

\* Color::from_rgb_str: six hex digits read as opaque RGB
from_rgb_str(color) ==
    IF Len(color) = 6 /\ \A i \in 1..6 : is_hex_digit(color[i])
    THEN Some(<<hex_pair(color, 1), hex_pair(color, 3), hex_pair(color, 5), 255>>)
    ELSE None

\* Color::from_rgba_str: eight hex digits read as RGBA
from_rgba_str(color) ==
    IF Len(color) = 8 /\ \A i \in 1..8 : is_hex_digit(color[i])
    THEN Some(<<hex_pair(color, 1), hex_pair(color, 3), hex_pair(color, 5), hex_pair(color, 7)>>)
    ELSE None

\* the arms of to_color's match on the constant name
ColorConstants == <<
    <<S(<<"B", "L", "A", "C", "K">>), <<0, 0, 0, 255>>>>,
    <<S(<<"W", "H", "I", "T", "E">>), <<255, 255, 255, 255>>>>,
    <<S(<<"R", "E", "D">>), <<255, 0, 0, 255>>>>,
    <<S(<<"G", "R", "E", "E", "N">>), <<0, 255, 0, 255>>>>,
    <<S(<<"B", "L", "U", "E">>), <<0, 0, 255, 255>>>>,
    <<S(<<"Y", "E", "L", "L", "O", "W">>), <<255, 255, 0, 255>>>>,
    <<S(<<"C", "Y", "A", "N">>), <<0, 255, 255, 255>>>>,
    <<S(<<"M", "A", "G", "E", "N", "T", "A">>), <<255, 0, 255, 255>>>>,
    <<S(<<"T", "R", "A", "N", "S", "P", "A", "R", "E", "N", "T">>), <<0, 0, 0, 0>>>>
>>

\* fn to_color
to_color(text) ==
    IF starts_with(text, 34) /\ ends_with(text, 34)
    THEN LET color == trim_start_matches(trim(trim_matches(trim(text), 34)), 35)
         IN  IF Len(color) = 6 THEN Parsed(from_rgb_str(color), <<>>)
             ELSE IF Len(color) = 8 THEN Parsed(from_rgba_str(color), <<>>)
             ELSE Parsed(None, <<<<"Invalid default value color string: ", text>>>>)
    ELSE LET choices == split(text, <<58, 58>>)
         IN  IF Len(choices) < 2 THEN Parsed(None, <<>>)
             ELSE IF trim(choices[1]) = S(<<"C", "o", "l", "o", "r">>)
             THEN IF \E i \in 1..Len(ColorConstants) : ColorConstants[i][1] = trim(choices[2])
                  THEN Parsed(Some(ColorConstants[CHOOSE i \in 1..Len(ColorConstants) :
                                      ColorConstants[i][1] = trim(choices[2])][2]), <<>>)
                  ELSE Parsed(None, <<<<"Invalid default value color constant: ", text>>>>)
             ELSE Parsed(None, <<<<"Invalid default value color: ", text>>>>)

\* the arms of to_reference_point's match on the variant name; a ReferencePoint
\* is <<position of its arm>>
ReferencePoints == <<
    S(<<"N", "o", "n", "e">>),
    S(<<"T", "o", "p", "L", "e", "f", "t">>),
    S(<<"T", "o", "p", "C", "e", "n", "t", "e", "r">>),
    S(<<"T", "o", "p", "R", "i", "g", "h", "t">>),
    S(<<"C", "e", "n", "t", "e", "r", "L", "e", "f", "t">>),
    S(<<"C", "e", "n", "t", "e", "r">>),
    S(<<"C", "e", "n", "t", "e", "r", "R", "i", "g", "h", "t">>),
    S(<<"B", "o", "t", "t", "o", "m", "L", "e", "f", "t">>),
    S(<<"B", "o", "t", "t", "o", "m", "C", "e", "n", "t", "e", "r">>),
    S(<<"B", "o", "t", "t", "o", "m", "R", "i", "g", "h", "t">>)
>>

\* fn to_reference_point
to_reference_point(text) ==
    LET choices == split(text, <<58, 58>>)
    IN  IF Len(choices) < 2 THEN Parsed(None, <<>>)
        ELSE IF trim(choices[1]) = S(<<"R", "e", "f", "e", "r", "e", "n", "c", "e", "P", "o", "i", "n", "t">>)
        THEN IF \E i \in 1..Len(ReferencePoints) : ReferencePoints[i] = trim(choices[2])
             THEN Parsed(Some(<<(CHOOSE i \in 1..Len(ReferencePoints) :
                                    ReferencePoints[i] = trim(choices[2])) - 1>>), <<>>)
             ELSE Parsed(None, <<<<"Invalid ReferencePoint default type variant: ", text>>>>)
        ELSE Parsed(None, <<<<"Invalid ReferencePoint default type: ", text>>>>)

\* Fill::solid(color): the Solid variant around the color
Fill_solid(color) == <<1>> \o color

\* the Generic and Concrete arms of from_primitive_string's match on ty
from_primitive_string_here(string, t) ==
    IF t.kind = "Generic" \/ t.id = None THEN Parsed(None, <<>>)
    ELSE LET T == t.id[1]
         IN  CASE T = "()" -> Parsed(Some(TaggedValue("None", <<>>)), <<>>)
               [] T = "String" -> Parsed(Some(TaggedValue("String", string)), <<>>)
               [] T = "f64" -> Parsed(map(f64_from_str(string), "F64"), <<>>)
               [] T = "u64" -> Parsed(map(unsigned_from_str(string), "U64"), <<>>)
               [] T = "u32" -> Parsed(map(unsigned_from_str(string), "U32"), <<>>)
               [] T = "DVec2" -> Parsed(map(to_dvec2(string), "DVec2"), <<>>)
               [] T = "bool" -> Parsed(map(bool_from_str(string), "Bool"), <<>>)
               [] T = "Color" -> Parsed(map(to_color(string).value, "Color"), to_color(string).log)
               [] T = "Option<Color>" ->
                    LET c == to_color(string)
                    IN  Parsed(IF c.value = None THEN None
                               ELSE Some(TaggedValue("OptionalColor", Some(c.value[1]))), c.log)
               [] T = "Fill" ->
                    LET c == to_color(string)
                    IN  Parsed(IF c.value = None THEN None
                               ELSE Some(TaggedValue("Fill", Fill_solid(c.value[1]))), c.log)
               [] T = "ReferencePoint" ->
                    Parsed(map(to_reference_point(string).value, "ReferencePoint"),
                           to_reference_point(string).log)
               [] OTHER -> Parsed(None, <<>>)

\* mutant: a Fn or Future descriptor is not looked into
from_primitive_string_shallow(string, t) ==
    IF t.kind \in {"Fn", "Future"} THEN Parsed(None, <<>>)
    ELSE from_primitive_string_here(string, t)

\* TaggedValue::from_primitive_string
RECURSIVE from_primitive_string(_, _)
from_primitive_string(string, t) ==
    IF t.kind \in {"Fn", "Future"} THEN from_primitive_string(string, t.output[1])
    ELSE from_primitive_string_here(string, t)

\* u32::to_string / u64::to_string
RECURSIVE unsigned_to_string(_)
unsigned_to_string(n) ==
    IF n < 10 THEN <<48 + n>> ELSE unsigned_to_string(n \div 10) \o <<48 + (n % 10)>>

\* f64::to_string of the values enumerated: NaN, the zeros, infinities, whole
\* numbers below 2^20 and 1 + EPSILON
f64_to_string(x) ==
    LET minus == IF x.sign = 1 THEN <<45>> ELSE <<>>
        k == x.exp - 1023
    IN  CASE IsNaN(x) -> S(<<"N", "a", "N">>)
          [] IsZero(x) -> minus \o <<48>>
          [] x.exp = 2047 /\ ~IsNaN(x) -> minus \o S(<<"i", "n", "f">>)
          [] x = OnePlusEps -> S(<<"1", ".", "0", "0", "0", "0", "0", "0", "0", "0",
                                   "0", "0", "0", "0", "0", "0", "0", "2">>)
          [] /\ ~IsZero(x) /\ x.exp # 2047 /\ x.mant_lo = 0 /\ k >= 0 /\ k <= 20
             /\ x.mant_hi % pow2(20 - k) = 0 ->
                minus \o unsigned_to_string(pow2(k) + x.mant_hi \div pow2(20 - k))

\* mutant: the bool is rendered capitalised
bool_to_string_capitalised(x) ==
    IF x = <<1>> THEN S(<<"T", "r", "u", "e">>) ELSE S(<<"F", "a", "l", "s", "e">>)

\* bool::to_string
bool_to_string(x) == IF x = <<1>> THEN S(<<"t", "r", "u", "e">>) ELSE S(<<"f", "a", "l", "s", "e">>)

\* <BlendMode as Display>::fmt: the name of the mode
BlendMode_to_string(x) ==
    IF x = <<0>> THEN S(<<"N", "o", "r", "m", "a", "l">>)
    ELSE S(<<"M", "u", "l", "t", "i", "p", "l", "y">>)

\* <Color as Debug>::fmt: the derived struct form, a channel shown by its 8-bit value
Color_debug(c) ==
    S(<<"C", "o", "l", "o", "r", " ", "{", " ", "r", "e", "d", ":", " ">>) \o unsigned_to_string(c[1])
      \o S(<<",", " ", "g", "r", "e", "e", "n", ":", " ">>) \o unsigned_to_string(c[2])
      \o S(<<",", " ", "b", "l", "u", "e", ":", " ">>) \o unsigned_to_string(c[3])
      \o S(<<",", " ", "a", "l", "p", "h", "a", ":", " ">>) \o unsigned_to_string(c[4])
      \o S(<<" ", "}">>)

Panic(msg) == [tag |-> "panic", msg |-> msg]

\* mutant: the `_` arm renders the unit literal instead of panicking
to_primitive_string_total(v) ==
    CASE v.variant = "None" -> Ok(S(<<"(", ")">>))
      [] v.variant = "String" -> Ok(<<34>> \o v.payload \o <<34>>)
      [] v.variant = "U32" -> Ok(unsigned_to_string(v.payload[1]) \o S(<<"_", "u", "3", "2">>))
      [] v.variant = "U64" -> Ok(unsigned_to_string(v.payload[1]) \o S(<<"_", "u", "6", "4">>))
      [] v.variant = "F64" -> Ok(f64_to_string(v.payload) \o S(<<"_", "f", "6", "4">>))
      [] v.variant = "Bool" -> Ok(bool_to_string(v.payload))
      [] v.variant = "BlendMode" ->
            Ok(S(<<"B", "l", "e", "n", "d", "M", "o", "d", "e", ":", ":">>) \o BlendMode_to_string(v.payload))
      [] v.variant = "Color" -> Ok(S(<<"C", "o", "l", "o", "r", " ">>) \o Color_debug(v.payload))
      [] OTHER -> Ok(S(<<"(", ")">>))

\* TaggedValue::to_primitive_string: the String returned, or the panic
to_primitive_string(v) ==
    CASE v.variant = "None" -> Ok(S(<<"(", ")">>))
      [] v.variant = "String" -> Ok(<<34>> \o v.payload \o <<34>>)
      [] v.variant = "U32" -> Ok(unsigned_to_string(v.payload[1]) \o S(<<"_", "u", "3", "2">>))
      [] v.variant = "U64" -> Ok(unsigned_to_string(v.payload[1]) \o S(<<"_", "u", "6", "4">>))
      [] v.variant = "F64" -> Ok(f64_to_string(v.payload) \o S(<<"_", "f", "6", "4">>))
      [] v.variant = "Bool" -> Ok(bool_to_string(v.payload))
      [] v.variant = "BlendMode" ->
            Ok(S(<<"B", "l", "e", "n", "d", "M", "o", "d", "e", ":", ":">>) \o BlendMode_to_string(v.payload))
      [] v.variant = "Color" -> Ok(S(<<"C", "o", "l", "o", "r", " ">>) \o Color_debug(v.payload))
      [] OTHER -> Panic("Cannot convert to primitive string")

-----------------------------------------------------------------------------
(* The value-upcast adapter UpcastNode.                                    *)

\* MemoHash::new: the value paired with its hash, computed here once
MemoHash_new(v) == [hash |-> TaggedValue_hash(v, <<>>), value |-> v]

\* <MemoHash<T> as Clone>::clone: value and hash are copied
MemoHash_clone(m) == m

\* MemoHash::into_inner
MemoHash_into_inner(m) == m.value

\* UpcastNode::new
UpcastNode_new(value) == [value |-> value]

\* mutant: the future resolves to the input it was called with
UpcastNode_eval_echo(self, arg) == arg

\* the body of the future UpcastNode::eval returns:
\* self.value.clone().into_inner().to_dynany()
UpcastNode_eval(self, arg) == to_dynany(MemoHash_into_inner(MemoHash_clone(self.value)))

-----------------------------------------------------------------------------
(* The desktop frame buffer (render.rs).  A usize is kept at its width as  *)
(* its bytes, least significant first.                                     *)

\* bytes of a usize on the 64-bit targets the desktop application is built for
USIZE_BYTES == 8

\* the usize of a number below 2^31
usize(n) == [i \in 1..USIZE_BYTES |-> IF i <= 4 THEN (n \div pow2(8 * (i - 1))) % 256 ELSE 0]

\* the usize 2^k
usize_pow2(k) == [i \in 1..USIZE_BYTES |-> IF i = (k \div 8) + 1 THEN pow2(k % 8) ELSE 0]

\* the sum of the byte products a[i] * b[j] with i + j - 1 = k, from i on
RECURSIVE column(_, _, _, _)
column(a, b, k, i) ==
    IF i > Len(a) THEN 0
    ELSE (IF k + 1 - i \in 1..Len(b) THEN a[i] * b[k + 1 - i] ELSE 0) + column(a, b, k, i + 1)

RECURSIVE carry(_, _, _)
carry(cols, k, c) ==
    IF k > Len(cols) THEN <<>>
    ELSE <<(cols[k] + c) % 256>> \o carry(cols, k + 1, (cols[k] + c) \div 256)

\* the product of two byte sequences at full precision
full_mul(a, b) == carry([k \in 1..(Len(a) + Len(b)) |-> column(a, b, k, 1)], 1, 0)

\* the value fits a usize
fits(x) == \A i \in (USIZE_BYTES + 1)..Len(x) : x[i] = 0

\* a * b on usize: the build panics on overflow with overflow checks on (the
\* debug profile) and wraps with them off (the release profile)
usize_mul(a, b, build) ==
    LET product == full_mul(a, b)
    IN  IF fits(product) \/ build = "release" THEN Ok(SubSeq(product, 1, USIZE_BYTES))
        ELSE Panic("attempt to multiply with overflow")

\* self.width * self.height * 4
expected_size(fb, build) ==
    LET wh == usize_mul(fb.width, fb.height, build)
    IN  IF wh.tag = "panic" THEN wh ELSE usize_mul(wh.value, usize(4), build)

InvalidSize(buffer_size, expected, width, height) ==
    [buffer_size |-> buffer_size, expected_size |-> expected, width |-> width, height |-> height]

\* FrameBufferRef::validate_size
validate_size(fb, build) ==
    LET expected == expected_size(fb, build)
    IN  IF expected.tag = "panic" THEN expected
        ELSE IF usize(fb.buffer.len) # expected.value
             THEN Err(InvalidSize(usize(fb.buffer.len), expected.value, fb.width, fb.height))
        ELSE Ok(<<>>)

\* FrameBufferRef::new
FrameBufferRef_new(buffer, width, height, build) ==
    LET fb == [buffer |-> buffer, width |-> width, height |-> height]
        valid == validate_size(fb, build)
    IN  IF valid.tag = "Ok" THEN Ok(fb) ELSE valid

\* FrameBufferRef::buffer, width, height
FrameBufferRef_buffer(fb) == fb.buffer
FrameBufferRef_width(fb) == fb.width
FrameBufferRef_height(fb) == fb.height

-----------------------------------------------------------------------------
(* The desktop presentation state GraphicsState (render.rs).               *)

unwrap_or(opt, default) == IF opt = None THEN default ELSE opt[1]

\* GraphicsState::new: the fields that change later, the surface configured
\* to the window's inner size
GraphicsState_new(size) ==
    [config |-> size,
     viewport_scale |-> [extent |-> <<1, 1>>, per |-> <<1, 1>>],
     viewport_offset |-> [top_left |-> <<0, 0>>, per |-> <<1, 1>>],
     viewport_texture |-> None,
     ui_texture |-> None,
     bind_group |-> None]

\* GraphicsState::resize
resize(gs, width, height) ==
    IF width > 0 /\ height > 0 /\ (gs.config[1] # width \/ gs.config[2] # height)
    THEN [gs EXCEPT !.config = <<width, height>>]
    ELSE gs

\* GraphicsState::create_bindgroup: binding 0 and binding 1
create_bindgroup(ui_texture, viewport_texture) == <<ui_texture.id, viewport_texture.id>>

\* mutant: the bind group is created by the first bind only
bind_ui_texture_once(gs, texture) ==
    [gs EXCEPT !.ui_texture = Some(texture),
               !.bind_group = IF @ = None
                              THEN Some(create_bindgroup(texture, unwrap_or(gs.viewport_texture, texture)))
                              ELSE @]

\* GraphicsState::bind_ui_texture
bind_ui_texture(gs, texture) ==
    [gs EXCEPT !.ui_texture = Some(texture),
               !.bind_group = Some(create_bindgroup(texture, unwrap_or(gs.viewport_texture, texture)))]

\* GraphicsState::bind_viewport_texture
bind_viewport_texture(gs, texture) ==
    [gs EXCEPT !.viewport_texture = Some(texture),
               !.bind_group = Some(create_bindgroup(unwrap_or(gs.ui_texture, texture), texture))]

\* GraphicsState::set_viewport_scale, set_viewport_offset
set_viewport_scale(gs, scale) == [gs EXCEPT !.viewport_scale = scale]
set_viewport_offset(gs, offset) == [gs EXCEPT !.viewport_offset = offset]

\* GraphicsState::render, surface being what get_current_texture() returns:
\* the Result, whether a draw was issued, and the warning logged
render(gs, surface) ==
    IF surface # "Ok" THEN [result |-> surface, drew |-> FALSE, logs |-> <<>>]
    ELSE IF gs.bind_group # None THEN [result |-> "Ok", drew |-> TRUE, logs |-> <<>>]
    ELSE [result |-> "Ok", drew |-> FALSE,
          logs |-> <<"No bind group available - showing clear color only">>]

-----------------------------------------------------------------------------
(* The desktop application WinitApp (app.rs).  An Instant is a number of   *)
(* 10 ms units.                                                            *)

Duration_from_millis(ms) == ms \div 10

\* mutant: the later of the two instants
Min_later(a, b) == IF a <= b THEN b ELSE a

\* Instant::min
Min(a, b) == IF a <= b THEN a ELSE b

\* WinitApp::new: cef_schedule is Some(Instant::now()), the clock starting at 0
WinitApp_new == [window |-> None, cef_schedule |-> Some(0), graphics_state |-> None]

\* what a callback did: the instant a ScheduleBrowserWork event carried, the
\* render outcome if it rendered, the messages it logged,
\* whether it called event_loop.exit(), how often cef_context.work(), how many
\* messages it dispatched to the editor, whether it panicked; after is the render
\* outcome of a RedrawRequested callback that returned just before it
NoHandler == [handler |-> "none", event |-> "none", instant |-> None, render |-> None, after |-> None,
              logs |-> <<>>, exit |-> FALSE, work |-> 0, dispatched |-> 0, panic |-> FALSE]

Did(name, event) == [NoHandler EXCEPT !.handler = name, !.event = event]

\* mutant: the replacement is spawned and the callback returns without waiting
spawn_detached(ex) == TRUE

\* futures::executor::block_on(replace_application_io(..)) returns once the
\* replacement has completed
block_on(ex) == ex.swap = "idle"

\* mutant: OutOfMemory is logged like the other errors
on_render_result_keep_going(result) ==
    CASE result = "Ok" -> [exit |-> FALSE, logs |-> <<>>]
      [] result = "Lost" -> [exit |-> FALSE, logs |-> <<"lost surface">>]
      [] OTHER -> [exit |-> FALSE, logs |-> <<result>>]

\* the match on graphics_state.render() in the RedrawRequested arm
on_render_result(result) ==
    CASE result = "Ok" -> [exit |-> FALSE, logs |-> <<>>]
      [] result = "Lost" -> [exit |-> FALSE, logs |-> <<"lost surface">>]
      [] result = "OutOfMemory" -> [exit |-> TRUE, logs |-> <<>>]
      [] OTHER -> [exit |-> FALSE, logs |-> <<result>>]

\* cef::Context::handle_window_event: events about the window itself are handed
\* back, an input event may be consumed by the browser
handle_window_event(event, consumed) == IF event = "Input" /\ consumed THEN None ELSE Some(event)

-----------------------------------------------------------------------------
(* Inputs.                                                                 *)

\* types no arm of the registry names, whose containers callers can still pass in
ForeignTypes == {"ForeignStruct", "i32"}

\* every type identity a concrete descriptor is enumerated with
DescriptorTypes == {PayloadType(Variants[i]) : i \in 1..NumVariants}
                      \cup {"&WasmEditorApi"} \cup ForeignTypes

RECURSIVE Descriptors(_)
Descriptors(depth) ==
    IF depth = 0
    THEN {Generic("T")} \cup {concrete(T) : T \in DescriptorTypes}
            \cup {Concrete(None, T) : T \in {"f64", "ForeignStruct"}}
    ELSE LET inner == Descriptors(depth - 1)
         IN  inner \cup {Fn(t) : t \in inner} \cup {Future(t) : t \in inner}

TypeDescriptors == Descriptors(MaxDepth)

\* texts offered as unit, string, number and bool literals, well-formed and not
ScalarLiterals == {
    <<>>,
    S(<<"(", ")">>),
    S(<<"a", "b", "c">>),
    S(<<"t", "r", "u", "e">>),
    S(<<"f", "a", "l", "s", "e">>),
    S(<<"T", "r", "u", "e">>),
    S(<<"0">>),
    S(<<"1">>),
    S(<<"2">>),
    S(<<"+", "1">>),
    S(<<"-", "0">>),
    S(<<"-", "1">>),
    S(<<"1", ".", "0">>),
    S(<<"N", "a", "N">>),
    S(<<"i", "n", "f">>),
    S(<<"1", "_", "u", "3", "2">>),
    S(<<"0", "_", "u", "6", "4">>),
    S(<<"1", "_", "f", "6", "4">>),
    S(<<" ", "1">>),
    S(<<"\"", "a", "\"">>)
}

\* texts offered as DVec2 literals
VectorLiterals == {
    S(<<"1", ",", "2">>),
    S(<<" ", "1", " ", ",", " ", "2", " ">>),
    S(<<"1", ",", "2", ",", "3">>),
    S(<<"1", ",">>),
    S(<<",", "1">>),
    S(<<"1", ",", "x">>),
    S(<<"1", " ", "2">>),
    S(<<"1", ",", "2", ",">>)
}

\* texts offered as color literals
ColorLiterals == {
    S(<<"\"", "f", "f", "0", "0", "0", "0", "\"">>),
    S(<<"\"", "#", "f", "f", "0", "0", "0", "0", "\"">>),
    S(<<"\"", "#", "f", "f", "0", "0", "0", "0", "f", "f", "\"">>),
    S(<<"\"", "F", "F", "0", "0", "0", "0", "F", "F", "\"">>),
    S(<<"\"", "#", "#", "f", "f", "0", "0", "0", "0", "\"">>),
    S(<<"\"", " ", "f", "f", "0", "0", "0", "0", " ", "\"">>),
    S(<<"\"", "f", "f", "0", "0", "\"">>),
    S(<<"\"", "g", "g", "0", "0", "0", "0", "\"">>),
    S(<<"#", "f", "f", "0", "0", "0", "0">>),
    S(<<"f", "f", "0", "0", "0", "0">>),
    S(<<"\"">>),
    S(<<"\"", "\"", "f", "f", "0", "0", "0", "0", "\"", "\"">>),
    S(<<"\"", "#", "f", "f", "0", "0", "0", "0", "8", "0", "\"">>),
    S(<<"C", "o", "l", "o", "r", ":", ":", "B", "L", "A", "C", "K">>),
    S(<<"C", "o", "l", "o", "r", ":", ":", "W", "H", "I", "T", "E">>),
    S(<<"C", "o", "l", "o", "r", ":", ":", "R", "E", "D">>),
    S(<<"C", "o", "l", "o", "r", ":", ":", "G", "R", "E", "E", "N">>),
    S(<<"C", "o", "l", "o", "r", ":", ":", "B", "L", "U", "E">>),
    S(<<"C", "o", "l", "o", "r", ":", ":", "Y", "E", "L", "L", "O", "W">>),
    S(<<"C", "o", "l", "o", "r", ":", ":", "C", "Y", "A", "N">>),
    S(<<"C", "o", "l", "o", "r", ":", ":", "M", "A", "G", "E", "N", "T", "A">>),
    S(<<"C", "o", "l", "o", "r", ":", ":", "T", "R", "A", "N", "S", "P", "A", "R", "E", "N", "T">>),
    S(<<"C", "o", "l", "o", "r", ":", ":", "P", "I", "N", "K">>),
    S(<<"C", "o", "l", "o", "r", ":", ":", "b", "l", "a", "c", "k">>),
    S(<<" ", "C", "o", "l", "o", "r", " ", ":", ":", " ", "R", "E", "D", " ">>),
    S(<<"C", "o", "l", "o", "r", ":", ":", "B", "L", "A", "C", "K", ":", ":", "x">>),
    S(<<"C", "o", "l", "o", "u", "r", ":", ":", "R", "E", "D">>),
    S(<<"C", "o", "l", "o", "r", ":", "R", "E", "D">>),
    S(<<"C", "o", "l", "o", "r">>),
    S(<<"B", "L", "A", "C", "K">>)
}

\* texts offered as ReferencePoint literals
ReferencePointLiterals == {
    S(<<"R", "e", "f", "e", "r", "e", "n", "c", "e", "P", "o", "i", "n", "t", ":", ":", "C", "e", "n", "t", "e", "r">>),
    S(<<"R", "e", "f", "e", "r", "e", "n", "c", "e", "P", "o", "i", "n", "t", ":", ":", "T", "o", "p", "L", "e", "f", "t">>),
    S(<<"R", "e", "f", "e", "r", "e", "n", "c", "e", "P", "o", "i", "n", "t", ":", ":", "M", "i", "d", "d", "l", "e">>),
    S(<<"C", "e", "n", "t", "e", "r">>)
}

\* the types a concrete descriptor is enumerated with for from_primitive_string:
\* those its match names, and some it does not
LiteralTypes == {"()", "String", "f64", "u64", "u32", "DVec2", "bool", "Color", "Option<Color>",
                 "Fill", "ReferencePoint", "DAffine2", "BlendMode", "ForeignStruct"}

RECURSIVE Wrapped(_, _)
Wrapped(base, depth) ==
    IF depth = 0 THEN base
    ELSE LET inner == Wrapped(base, depth - 1)
         IN  inner \cup {Fn(t) : t \in inner} \cup {Future(t) : t \in inner}

\* every descriptor from_primitive_string is called with
LiteralDescriptors ==
    Wrapped({Generic("T"), Concrete(None, "f64")} \cup {concrete(T) : T \in LiteralTypes}, MaxDepth)

\* every text from_primitive_string is called with
Literals == ScalarLiterals \cup VectorLiterals \cup ColorLiterals \cup ReferencePointLiterals

\* the erased inputs eval is called with
EvalInputs == {to_dynany(TaggedValue("None", <<>>)), to_dynany(TaggedValue("U32", <<1>>))}

\* the byte slices FrameBufferRef::new is called with: which slice, and its length
Buffers == {[id |-> b, len |-> n] : b \in {0, 1}, n \in {0, 1, 16, 63, 64, 65}}

\* the widths and heights FrameBufferRef::new is called with
Dimensions == {usize(0), usize(1), usize(2), usize(4), usize(8), usize_pow2(61), usize_pow2(62)}

\* the overflow-check settings of the build profiles
Builds == {"debug", "release"}

\* the inner size of the window resumed creates
WindowSize == <<1200, 800>>

\* the textures UiUpdate and NodeGraphRan events carry
EventTextures == {[id |-> 1, width |-> 800, height |-> 600]}

\* the messages MessageReceived events carry
Messages == {[kind |-> "Other"], [kind |-> "InputPreprocessor"],
             [kind |-> "BoundsOfViewports", top_left |-> <<300, 200>>, bottom_right |-> <<900, 600>>]}

\* what Surface::get_current_texture returns: Ok or a wgpu::SurfaceError
SurfaceResults == {"Ok", "Timeout", "Outdated", "Lost", "OutOfMemory", "Other"}

\* the window events delivered
WindowEvents == {"CloseRequested", "Resized", "RedrawRequested", "Input"}

\* the causes new_events is called with
StartCauses == {"Init", "Poll", "WaitCancelled", "ResumeTimeReached"}

\* what poll_node_graph_evaluation returns
PollResults == {"Ok", "No active document", "evaluation failed"}

\* the textures a GraphicsState is given
Textures == EventTextures \union {[id |-> 2, width |-> 1200, height |-> 800]}

\* the sizes resize is called with
Widths == {0, 800, 1200}
Heights == {0, 600}

\* the values set_viewport_scale and set_viewport_offset are called with
ViewportScales == {[extent |-> <<600, 400>>, per |-> WindowSize]}
ViewportOffsets == {[top_left |-> <<300, 200>>, per |-> WindowSize]}

-----------------------------------------------------------------------------
(* The state machine.                                                      *)

NoContainer == Container("none", "", <<>>)
NoResult == [tag |-> "none"]
NotCalled == [op |-> "none"]

Init ==
    /\ container = NoContainer
    /\ erased = None
    /\ recovered = NoResult
    /\ input = None
    /\ defaulted = NotCalled
    /\ hashed = <<None, None>>
    /\ state = <<<<>>, <<>>>>
    /\ parsed = NotCalled
    /\ rendered = NotCalled
    /\ node = None
    /\ futures = <<>>
    /\ frame = NotCalled
    /\ app = WinitApp_new
    /\ loop = [now |-> 0, control_flow |-> None, redraw_requested |-> FALSE, state |-> "running"]
    /\ executor = [swap |-> "idle", invoked_by |-> "none", polling |-> FALSE]
    /\ handler = "none"
    /\ last = NoHandler
    /\ graphics = GraphicsState_new(WindowSize)
    /\ bound = [ui |-> None, viewport |-> None]
    /\ drawn = NotCalled

\* value.to_dynany()
ToDynany(v) ==
    /\ container' = to_dynany(v)
    /\ erased' = Some(v)
    /\ recovered' = NoResult
    /\ UNCHANGED <<input, defaulted, hashed, state>>
    /\ UNCHANGED <<textVars, nodeVars, frameVars, appVars, graphicsVars>>

\* value.to_any()
ToAny(v) ==
    /\ container' = to_any(v)
    /\ erased' = Some(v)
    /\ recovered' = NoResult
    /\ UNCHANGED <<input, defaulted, hashed, state>>
    /\ UNCHANGED <<textVars, nodeVars, frameVars, appVars, graphicsVars>>

\* a caller boxes a value of a type the registry does not know
BoxForeign(kind, T, x) ==
    /\ container' = Container(kind, T, x)
    /\ erased' = None
    /\ recovered' = NoResult
    /\ UNCHANGED <<input, defaulted, hashed, state>>
    /\ UNCHANGED <<textVars, nodeVars, frameVars, appVars, graphicsVars>>

\* TaggedValue::try_from_any(container): the box is consumed
TryFromAny ==
    /\ container.kind = "dyn"
    /\ recovered' = try_from_any(container)
    /\ container' = [container EXCEPT !.kind = "moved"]
    /\ UNCHANGED <<erased, input, defaulted, hashed, state>>
    /\ UNCHANGED <<textVars, nodeVars, frameVars, appVars, graphicsVars>>

\* TaggedValue::try_from_std_any_ref(&*container): the content is borrowed
TryFromStdAnyRef ==
    /\ container.kind = "any"
    /\ recovered' = try_from_std_any_ref(container)
    /\ UNCHANGED <<container, erased, input, defaulted, hashed, state>>
    /\ UNCHANGED <<textVars, nodeVars, frameVars, appVars, graphicsVars>>

\* TaggedValue::from_type(&t)
FromType(t) ==
    /\ input' = Some(t)
    /\ defaulted' = [op |-> "from_type", result |-> from_type(t)]
    /\ UNCHANGED <<container, erased, recovered, hashed, state>>
    /\ UNCHANGED <<textVars, nodeVars, frameVars, appVars, graphicsVars>>

\* TaggedValue::from_type_or_none(&t)
FromTypeOrNone(t) ==
    /\ input' = Some(t)
    /\ defaulted' = [op |-> "from_type_or_none", value |-> from_type_or_none(t)]
    /\ UNCHANGED <<container, erased, recovered, hashed, state>>
    /\ UNCHANGED <<textVars, nodeVars, frameVars, appVars, graphicsVars>>

\* v.hash(&mut hasher) on the i-th of two fresh hashers, the first one first
HashValue(i, v) ==
    /\ hashed[i] = None
    /\ i = 2 => hashed[1] # None
    /\ hashed' = [hashed EXCEPT ![i] = Some(v)]
    /\ state' = [state EXCEPT ![i] = TaggedValue_hash(v, <<>>)]
    /\ UNCHANGED <<container, erased, recovered, input, defaulted>>
    /\ UNCHANGED <<textVars, nodeVars, frameVars, appVars, graphicsVars>>

\* both hashers are finished and replaced by fresh ones
NewHashers ==
    /\ hashed[1] # None
    /\ hashed[2] # None
    /\ hashed' = <<None, None>>
    /\ state' = <<<<>>, <<>>>>
    /\ UNCHANGED <<container, erased, recovered, input, defaulted>>
    /\ UNCHANGED <<textVars, nodeVars, frameVars, appVars, graphicsVars>>


\* no call of the literal-text operations or of from_type is outstanding
Idle == parsed.op = "none" /\ rendered.op = "none" /\ defaulted.op = "none"

\* TaggedValue::from_primitive_string(s, &t)
FromPrimitiveString(s, t) ==
    /\ Idle
    /\ LET r == from_primitive_string(s, t)
       IN  parsed' = [op |-> "from_primitive_string", string |-> s, ty |-> t,
                      value |-> r.value, log |-> r.log]
    /\ UNCHANGED <<container, erased, recovered, input, defaulted, hashed, state, rendered, nodeVars, frameVars, appVars, graphicsVars>>

\* v.to_primitive_string()
ToPrimitiveString(v) ==
    /\ Idle
    /\ rendered' = [op |-> "to_primitive_string", value |-> v, out |-> to_primitive_string(v)]
    /\ UNCHANGED <<container, erased, recovered, input, defaulted, hashed, state, parsed, nodeVars, frameVars, appVars, graphicsVars>>

\* TaggedValue::from_primitive_string(&v.to_primitive_string(), &v.ty())
ParseRendered ==
    /\ rendered.op # "none"
    /\ rendered.out.tag = "Ok"
    /\ parsed.op = "none"
    /\ LET r == from_primitive_string(rendered.out.value, ty(rendered.value))
       IN  parsed' = [op |-> "from_primitive_string", string |-> rendered.out.value,
                      ty |-> ty(rendered.value), value |-> r.value, log |-> r.log]
    /\ UNCHANGED <<container, erased, recovered, input, defaulted, hashed, state, rendered, nodeVars, frameVars, appVars, graphicsVars>>

\* TaggedValue::from_type(&t) beside the literal-text operations
DefaultFor(t) ==
    /\ Idle
    /\ FromType(t)

\* the caller drops what the calls returned
Done ==
    /\ ~Idle
    /\ parsed' = NotCalled
    /\ rendered' = NotCalled
    /\ input' = None
    /\ defaulted' = NotCalled
    /\ UNCHANGED <<container, erased, recovered, hashed, state, nodeVars, frameVars, appVars, graphicsVars>>


\* UpcastNode::new(MemoHash::new(v)); no future borrows the node it replaces
NewUpcast(v) ==
    /\ futures = <<>>
    /\ node' = Some(UpcastNode_new(MemoHash_new(v)))
    /\ UNCHANGED <<container, erased, recovered, input, defaulted, hashed, state, textVars, futures, frameVars, appVars, graphicsVars>>

\* node.eval(in): the future is returned unpolled, borrowing the node
Eval(arg) ==
    /\ node # None
    /\ Len(futures) < MaxFutures
    /\ futures' = Append(futures, [input |-> arg, ready |-> FALSE, output |-> None])
    /\ UNCHANGED <<container, erased, recovered, input, defaulted, hashed, state, textVars, node, frameVars, appVars, graphicsVars>>

\* the k-th future is polled: its async block runs to completion
Poll(k) ==
    /\ k \in 1..Len(futures)
    /\ ~futures[k].ready
    /\ futures' = [futures EXCEPT ![k] = [input |-> @.input, ready |-> TRUE,
                                           output |-> Some(UpcastNode_eval(node[1], @.input))]]
    /\ UNCHANGED <<container, erased, recovered, input, defaulted, hashed, state, textVars, node, frameVars, appVars, graphicsVars>>

\* the caller drops the futures it holds
DropFutures ==
    /\ futures # <<>>
    /\ futures' = <<>>
    /\ UNCHANGED <<container, erased, recovered, input, defaulted, hashed, state, textVars, node, frameVars, appVars, graphicsVars>>


\* FrameBufferRef::new(buffer, width, height)
NewFrameBuffer(buffer, width, height, build) ==
    /\ frame.op = "none"
    /\ frame' = [op |-> "new", buffer |-> buffer, width |-> width, height |-> height, build |-> build,
                 result |-> FrameBufferRef_new(buffer, width, height, build)]
    /\ UNCHANGED <<container, erased, recovered, input, defaulted, hashed, state, textVars, nodeVars, appVars, graphicsVars>>

\* the caller drops the FrameBufferRef or the error
DropFrameBuffer ==
    /\ frame.op # "none"
    /\ frame' = NotCalled
    /\ UNCHANGED <<container, erased, recovered, input, defaulted, hashed, state, textVars, nodeVars, appVars, graphicsVars>>


\* the event loop delivers a callback: it runs, and no other callback is running
Delivers == loop.state = "running" /\ handler = "none"

\* time passes between callbacks
Tick ==
    /\ Delivers
    /\ loop.now < MaxTime
    /\ loop' = [loop EXCEPT !.now = @ + 1]
    /\ UNCHANGED <<app, executor, handler, last>>
    /\ UNCHANGED <<container, erased, recovered, input, defaulted, hashed, state, textVars, nodeVars, frameVars, graphicsVars>>

\* WinitApp::about_to_wait
AboutToWait ==
    /\ Delivers
    /\ LET timeout == loop.now + Duration_from_millis(10)
           wait_until == Min(timeout, unwrap_or(app.cef_schedule, timeout))
       IN  loop' = [loop EXCEPT !.control_flow = Some(wait_until)]
    /\ last' = [Did("about_to_wait", "none") EXCEPT !.work = 1]
    /\ UNCHANGED <<app, executor, handler>>
    /\ UNCHANGED <<container, erased, recovered, input, defaulted, hashed, state, textVars, nodeVars, frameVars, graphicsVars>>

\* WinitApp::new_events; ResumeTimeReached is the cause once the WaitUntil deadline has come
NewEvents(cause) ==
    /\ Delivers
    /\ cause = "ResumeTimeReached" => (loop.control_flow # None /\ loop.control_flow[1] <= loop.now)
    /\ LET due == app.cef_schedule # None /\ app.cef_schedule[1] < loop.now
       IN  /\ app' = [app EXCEPT !.cef_schedule = IF due THEN None ELSE @]
           /\ last' = [Did("new_events", cause) EXCEPT !.work = IF due THEN 1 ELSE 0]
    /\ loop' = [loop EXCEPT !.redraw_requested =
                    IF cause = "ResumeTimeReached" /\ app.window # None THEN TRUE ELSE @]
    /\ UNCHANGED <<executor, handler>>
    /\ UNCHANGED <<container, erased, recovered, input, defaulted, hashed, state, textVars, nodeVars, frameVars, graphicsVars>>

\* mutant: resumed stores the window and leaves graphics_state as it was
ResumedBegin_window_only ==
    /\ Delivers
    /\ app' = [app EXCEPT !.window = Some(WindowSize)]
    /\ executor' = [executor EXCEPT !.swap = "running", !.invoked_by = "resumed"]
    /\ handler' = "resumed"
    /\ last' = NoHandler
    /\ UNCHANGED loop
    /\ UNCHANGED <<container, erased, recovered, input, defaulted, hashed, state, textVars, nodeVars, frameVars, graphicsVars>>

\* WinitApp::resumed up to the call of block_on: window and graphics state are
\* created and the replacement of the application io has been started
ResumedBegin ==
    /\ Delivers
    /\ app' = [app EXCEPT !.window = Some(WindowSize),
                          !.graphics_state = Some(GraphicsState_new(WindowSize))]
    /\ executor' = [executor EXCEPT !.swap = "running", !.invoked_by = "resumed"]
    /\ handler' = "resumed"
    /\ last' = NoHandler
    /\ UNCHANGED loop
    /\ UNCHANGED <<container, erased, recovered, input, defaulted, hashed, state, textVars, nodeVars, frameVars, graphicsVars>>

\* replace_application_io completes on the executor
ReplaceCompletes ==
    /\ executor.swap = "running"
    /\ executor' = [executor EXCEPT !.swap = "idle"]
    /\ UNCHANGED <<app, loop, handler, last>>
    /\ UNCHANGED <<container, erased, recovered, input, defaulted, hashed, state, textVars, nodeVars, frameVars, graphicsVars>>

\* WinitApp::resumed returns
ResumedEnd ==
    /\ handler = "resumed"
    /\ block_on(executor)
    /\ handler' = "none"
    /\ last' = [Did("resumed", "none") EXCEPT !.logs = <<"Winit window created and ready">>]
    /\ UNCHANGED <<app, loop, executor>>
    /\ UNCHANGED <<container, erased, recovered, input, defaulted, hashed, state, textVars, nodeVars, frameVars, graphicsVars>>

\* WinitApp::user_event, CustomEvent::UiUpdate
UiUpdate(texture) ==
    /\ Delivers
    /\ app' = [app EXCEPT !.graphics_state =
                  IF @ = None THEN None
                  ELSE Some(resize(bind_ui_texture(@[1], texture), texture.width, texture.height))]
    /\ loop' = [loop EXCEPT !.redraw_requested = IF app.window # None THEN TRUE ELSE @]
    /\ last' = Did("user_event", "UiUpdate")
    /\ UNCHANGED <<executor, handler>>
    /\ UNCHANGED <<container, erased, recovered, input, defaulted, hashed, state, textVars, nodeVars, frameVars, graphicsVars>>

\* WinitApp::user_event, CustomEvent::ScheduleBrowserWork
ScheduleBrowserWork(instant) ==
    /\ Delivers
    /\ app' = [app EXCEPT !.cef_schedule = IF instant <= loop.now THEN @ ELSE Some(instant)]
    /\ last' = [Did("user_event", "ScheduleBrowserWork") EXCEPT !.instant = Some(instant),
                                                                !.work = IF instant <= loop.now THEN 1 ELSE 0]
    /\ UNCHANGED <<loop, executor, handler>>
    /\ UNCHANGED <<container, erased, recovered, input, defaulted, hashed, state, textVars, nodeVars, frameVars, graphicsVars>>

\* WinitApp::user_event, CustomEvent::MessageReceived
MessageReceived(message) ==
    /\ Delivers
    /\ LET bounds == message.kind = "BoundsOfViewports"
           panics == bounds /\ (app.graphics_state = None \/ app.window = None)
       IN  /\ app' = [app EXCEPT !.graphics_state =
                         IF bounds /\ ~panics
                         THEN Some(set_viewport_scale(
                                      set_viewport_offset(@[1], [top_left |-> message.top_left,
                                                                 per |-> app.window[1]]),
                                      [extent |-> <<message.bottom_right[1] - message.top_left[1],
                                                    message.bottom_right[2] - message.top_left[2]>>,
                                       per |-> app.window[1]]))
                         ELSE @]
           /\ loop' = [loop EXCEPT !.redraw_requested =
                           IF message.kind # "Other" /\ app.window # None THEN TRUE ELSE @,
                                   !.state = IF panics THEN "panicked" ELSE @]
           /\ last' = [Did("user_event", message.kind) EXCEPT !.panic = panics,
                                                             !.dispatched = IF panics THEN 0 ELSE 1]
    /\ UNCHANGED <<executor, handler>>
    /\ UNCHANGED <<container, erased, recovered, input, defaulted, hashed, state, textVars, nodeVars, frameVars, graphicsVars>>

\* WinitApp::user_event, CustomEvent::NodeGraphRan, up to the call of
\* poll_node_graph_evaluation
NodeGraphRanBegin(texture) ==
    /\ Delivers
    /\ app' = [app EXCEPT !.graphics_state =
                  IF texture # None /\ @ # None THEN Some(bind_viewport_texture(@[1], texture[1])) ELSE @]
    /\ executor' = [executor EXCEPT !.polling = TRUE]
    /\ handler' = "user_event"
    /\ last' = NoHandler
    /\ UNCHANGED loop
    /\ UNCHANGED <<container, erased, recovered, input, defaulted, hashed, state, textVars, nodeVars, frameVars, graphicsVars>>

\* poll_node_graph_evaluation returns err with n responses, which are dispatched
NodeGraphRanEnd(err, n) ==
    /\ handler = "user_event"
    /\ executor' = [executor EXCEPT !.polling = FALSE]
    /\ handler' = "none"
    /\ last' = [Did("user_event", "NodeGraphRan") EXCEPT
                    !.logs = IF err \in {"Ok", "No active document"} THEN <<>>
                             ELSE <<"Error poling node graph: ", err>>,
                    !.dispatched = n]
    /\ UNCHANGED <<app, loop>>
    /\ UNCHANGED <<container, erased, recovered, input, defaulted, hashed, state, textVars, nodeVars, frameVars, graphicsVars>>

\* the render outcome of a RedrawRequested callback that has just returned
JustRendered == IF last.handler = "window_event" /\ last.event = "RedrawRequested" THEN last.render ELSE None

\* WinitApp::window_event for an event of the window resumed created
WindowEvent(event, consumed, surface) ==
    /\ Delivers
    /\ app.window # None
    /\ IF handle_window_event(event, consumed) = None
       THEN /\ last' = Did("window_event", "consumed")
            /\ UNCHANGED loop
       ELSE CASE event = "CloseRequested" ->
                    /\ loop' = [loop EXCEPT !.state = "exiting"]
                    /\ last' = [Did("window_event", event) EXCEPT
                                   !.logs = <<"The close button was pressed; stopping">>,
                                   !.exit = TRUE, !.work = 1]
              [] event = "RedrawRequested" /\ app.graphics_state = None ->
                    /\ loop' = [loop EXCEPT !.redraw_requested = FALSE]
                    /\ last' = [Did("window_event", event) EXCEPT !.after = JustRendered]
              [] event = "RedrawRequested" /\ app.graphics_state # None ->
                    LET outcome == render(app.graphics_state[1], surface)
                        arm == on_render_result(outcome.result)
                    IN  /\ loop' = [loop EXCEPT !.redraw_requested = FALSE,
                                                !.state = IF arm.exit THEN "exiting" ELSE @]
                        /\ last' = [Did("window_event", event) EXCEPT
                                       !.render = Some(outcome.result),
                                       !.after = JustRendered,
                                       !.logs = outcome.logs \o arm.logs,
                                       !.exit = arm.exit, !.work = 1]
              [] OTHER ->
                    /\ last' = [Did("window_event", event) EXCEPT !.work = 1]
                    /\ UNCHANGED loop
    /\ UNCHANGED <<app, executor, handler>>
    /\ UNCHANGED <<container, erased, recovered, input, defaulted, hashed, state, textVars, nodeVars, frameVars, graphicsVars>>


\* graphics.bind_ui_texture(texture)
BindUiTexture(texture) ==
    /\ graphics' = bind_ui_texture(graphics, texture)
    /\ bound' = [bound EXCEPT !.ui = Some(texture)]
    /\ UNCHANGED drawn
    /\ UNCHANGED <<container, erased, recovered, input, defaulted, hashed, state, textVars, nodeVars, frameVars, appVars>>

\* graphics.bind_viewport_texture(texture)
BindViewportTexture(texture) ==
    /\ graphics' = bind_viewport_texture(graphics, texture)
    /\ bound' = [bound EXCEPT !.viewport = Some(texture)]
    /\ UNCHANGED drawn
    /\ UNCHANGED <<container, erased, recovered, input, defaulted, hashed, state, textVars, nodeVars, frameVars, appVars>>

\* graphics.resize(width, height)
Resize(width, height) ==
    /\ graphics' = resize(graphics, width, height)
    /\ UNCHANGED <<bound, drawn>>
    /\ UNCHANGED <<container, erased, recovered, input, defaulted, hashed, state, textVars, nodeVars, frameVars, appVars>>

\* graphics.set_viewport_scale(scale)
SetViewportScale(scale) ==
    /\ graphics' = set_viewport_scale(graphics, scale)
    /\ UNCHANGED <<bound, drawn>>
    /\ UNCHANGED <<container, erased, recovered, input, defaulted, hashed, state, textVars, nodeVars, frameVars, appVars>>

\* graphics.set_viewport_offset(offset)
SetViewportOffset(offset) ==
    /\ graphics' = set_viewport_offset(graphics, offset)
    /\ UNCHANGED <<bound, drawn>>
    /\ UNCHANGED <<container, erased, recovered, input, defaulted, hashed, state, textVars, nodeVars, frameVars, appVars>>

\* graphics.render(), get_current_texture() returning surface: render changes no
\* field of the GraphicsState
RenderSurface(surface) ==
    /\ drawn' = [op |-> "render", bind_group |-> graphics.bind_group,
                 outcome |-> render(graphics, surface)]
    /\ UNCHANGED <<graphics, bound>>
    /\ UNCHANGED <<container, erased, recovered, input, defaulted, hashed, state, textVars, nodeVars, frameVars, appVars>>

Erase ==
    \E i \in 1..NumVariants : \E x \in PayloadsOf(PayloadType(Variants[i])) :
        \/ ToDynany(TaggedValue(Variants[i], x))
        \/ ToAny(TaggedValue(Variants[i], x))

Foreign == \E kind \in {"dyn", "any"} : \E T \in ForeignTypes : \E x \in Opaque :
              BoxForeign(kind, T, x)

NextErase == Erase \/ Foreign \/ TryFromAny \/ TryFromStdAnyRef

NextType == \E t \in TypeDescriptors : FromType(t) \/ FromTypeOrNone(t)

HashSome ==
    \E n \in 1..2 : \E i \in 1..NumVariants : \E x \in PayloadsOf(PayloadType(Variants[i])) :
        HashValue(n, TaggedValue(Variants[i], x))

NextHash == HashSome \/ NewHashers

Parse == \E s \in Literals : \E t \in LiteralDescriptors : FromPrimitiveString(s, t)

Render == \E i \in 1..NumVariants : \E x \in PayloadsOf(PayloadType(Variants[i])) :
              ToPrimitiveString(TaggedValue(Variants[i], x))

Resolve == \E t \in TypeDescriptors : DefaultFor(t)

Construct == \E i \in 1..NumVariants : \E x \in PayloadsOf(PayloadType(Variants[i])) :
                 NewUpcast(TaggedValue(Variants[i], x))

NextNode == Construct \/ (\E arg \in EvalInputs : Eval(arg)) \/ (\E k \in 1..MaxFutures : Poll(k)) \/ DropFutures

UserEvent ==
    \/ \E texture \in EventTextures : UiUpdate(texture)
    \/ \E instant \in 0..(MaxTime + 1) : ScheduleBrowserWork(instant)
    \/ \E message \in Messages : MessageReceived(message)
    \/ \E texture \in Option(EventTextures) : NodeGraphRanBegin(texture)
    \/ \E err \in PollResults : \E n \in 0..1 : NodeGraphRanEnd(err, n)

NextApp ==
    \/ Tick
    \/ AboutToWait
    \/ \E cause \in StartCauses : NewEvents(cause)
    \/ ResumedBegin
    \/ ReplaceCompletes
    \/ ResumedEnd
    \/ UserEvent
    \/ \E event \in WindowEvents : \E consumed \in BOOLEAN : \E surface \in SurfaceResults :
          WindowEvent(event, consumed, surface)

NextGraphics ==
    \/ \E texture \in Textures : BindUiTexture(texture)
    \/ \E texture \in Textures : BindViewportTexture(texture)
    \/ \E width \in Widths : \E height \in Heights : Resize(width, height)
    \/ \E scale \in ViewportScales : SetViewportScale(scale)
    \/ \E offset \in ViewportOffsets : SetViewportOffset(offset)
    \/ \E surface \in SurfaceResults : RenderSurface(surface)

NextFrame ==
    \/ \E buffer \in Buffers : \E width \in Dimensions : \E height \in Dimensions :
          \E build \in Builds : NewFrameBuffer(buffer, width, height, build)
    \/ DropFrameBuffer

NextText == Parse \/ Render \/ ParseRendered \/ Resolve \/ Done

\* erasure and recovery
SpecErase == Init /\ [][NextErase]_vars
\* defaults from type descriptors
SpecType == Init /\ [][NextType]_vars
\* hashing
SpecHash == Init /\ [][NextHash]_vars
\* literal text
SpecText == Init /\ [][NextText]_vars
\* the value-upcast adapter
SpecNode == Init /\ [][NextNode]_vars
\* the desktop frame buffer
SpecFrame == Init /\ [][NextFrame]_vars
\* the desktop application's event loop
SpecApp == Init /\ [][NextApp]_vars
\* the desktop presentation state
SpecGraphics == Init /\ [][NextGraphics]_vars

Next == NextErase \/ NextType \/ NextHash \/ NextText \/ NextNode \/ NextFrame \/ NextApp \/ NextGraphics
Spec == Init /\ [][Next]_vars

-----------------------------------------------------------------------------
(* Properties of erasure and recovery (SpecErase).                         *)

\* a recovery call has returned for the current container
Recovered == recovered.tag # "none"

\* the type identities the recovery match lists
ListedIds == {RecoveryArms[i][2] : i \in 1..Len(RecoveryArms)}

\* C1: erasing any TaggedValue V(x), of any variant of the enum, with to_dynany
\* or to_any and recovering it with try_from_any or try_from_std_any_ref
\* returns Ok(V(x)).
C1_RoundTrip ==
    (Recovered /\ erased # None) =>
        /\ recovered.tag = "Ok"
        /\ Same(recovered.value, erased[1])

\* C2: a container whose runtime type identity is none of the listed ones makes
\* either recovery function return Err, with an error string that contains the
\* runtime type name of that container.
C2_MismatchNamesType ==
    (Recovered /\ container.type_id \notin ListedIds) =>
        /\ recovered.tag = "Err"
        /\ \E i \in 1..Len(recovered.msg) : recovered.msg[i] = container.type_name

\* C4: the type identity of ty(v) is the runtime type identity of the container
\* to_dynany(v) / to_any(v) produces, for every variant, and no two variants
\* have the same type identity.
C4_IdentityConsistent ==
    /\ \A i, j \in 1..NumVariants :
          i # j => PayloadType(Variants[i]) # PayloadType(Variants[j])
    /\ erased # None => ty(erased[1]).id = Some(container.type_id)

-----------------------------------------------------------------------------
(* Properties of default construction (SpecType).                          *)

\* from_type has returned for the descriptor in input
Defaulted == defaulted.op = "from_type"

\* the type identities ty() reports over all variants
TyIds == {ty(TaggedValue(Variants[i], <<>>)).id[1] : i \in 1..NumVariants}

\* the unit type and the payload types of the macro-listed variants
DefaultableIds == {"()"} \cup {Registered[i][2] : i \in 1..NumRegistered}

IsConcreteOf(t, ids) == t.kind = "Concrete" /\ t.id # None /\ t.id[1] \in ids

\* C3 as stated: for every Concrete descriptor d whose type identity is the one
\* ty() reports for some variant, from_type(d) is Some(v) with v.ty() = d.
C3_DefaultAgreesEveryVariant ==
    (Defaulted /\ IsConcreteOf(input[1], TyIds)) =>
        /\ defaulted.result # None
        /\ ty(defaulted.result[1]) = input[1]

\* C3 amended: for every Concrete descriptor d whose type identity is the unit
\* type or the payload type of a macro-listed variant, from_type(d) is Some(v)
\* with v.ty() = d.
C3_DefaultAgreesRegistered ==
    (Defaulted /\ IsConcreteOf(input[1], DefaultableIds)) =>
        /\ defaulted.result # None
        /\ ty(defaulted.result[1]) = input[1]

C3_Witness ==
    /\ Defaulted
    /\ input = Some(concrete("()"))
    /\ defaulted.result # None
    /\ defaulted.result[1].variant = "None"

-----------------------------------------------------------------------------
(* Properties of hashing (SpecHash).                                       *)

\* both hashers have been fed a value
BothHashed == hashed[1] # None /\ hashed[2] # None
HashedA == hashed[1][1]
HashedB == hashed[2][1]

\* C5: two TaggedValues that are equal under the enum's PartialEq feed their
\* hashers the same data.
C5_EqImpliesSameHash ==
    (BothHashed /\ TaggedValue_eq(HashedA, HashedB)) => state[1] = state[2]

\* C6: the same value hashed twice feeds the identical sequence (a NaN
\* included), and two F64 values feed different data exactly when their
\* 64-bit patterns differ.
C6_BitSensitive ==
    BothHashed =>
        /\ Same(HashedA, HashedB) => state[1] = state[2]
        /\ (HashedA.variant = "F64" /\ HashedB.variant = "F64") =>
              (state[1] # state[2] <=> to_bits(HashedA.payload) # to_bits(HashedB.payload))

C6_Witness ==
    /\ BothHashed
    /\ Same(HashedA, TaggedValue("F64", One))
    /\ Same(HashedB, TaggedValue("F64", OnePlusEps))
    /\ state[1] # state[2]

\* C7: the variant discriminant is written before any payload data, so two
\* values of different variants never feed the same data.
C7_DiscriminantFirst ==
    BothHashed =>
        /\ \A n \in 1..2 : /\ state[n] # <<>>
                            /\ Head(state[n]) = <<8, U64Bits(discriminant(hashed[n][1]))>>
        /\ HashedA.variant # HashedB.variant => state[1] # state[2]

C7_Witness ==
    /\ BothHashed
    /\ Same(HashedA, TaggedValue("F64", PosZero))
    /\ Same(HashedB, TaggedValue("U64", <<0>>))
    /\ Tail(state[1]) = Tail(state[2])
    /\ state[1] # state[2]

\* the data one float-bearing element is expected to contribute
ElementData(X, x) ==
    IF X = "f64" THEN <<<<8, to_bits(x)>>>>
    ELSE <<<<8, to_bits(x[1])>>, <<8, to_bits(x[2])>>>>

RECURSIVE InOrder(_, _)
InOrder(X, xs) == IF xs = <<>> THEN <<>> ELSE ElementData(X, Head(xs)) \o InOrder(X, Tail(xs))

\* the data an Option / Vec payload is expected to contribute after the discriminant
CompositeData(v) ==
    LET T == PayloadType(v.variant)
    IN  IF T \in {"Option<f64>", "Option<DVec2>"}
        THEN IF v.payload = None THEN <<<<4, <<0>>>>>>
             ELSE <<<<4, <<1>>>>>> \o ElementData(Inner(T), v.payload[1])
        ELSE <<<<8, U64Bits(Len(v.payload))>>>> \o InOrder(Inner(T), v.payload)

Composite == {"OptionalF64", "OptionalDVec2", "VecF64", "VecDVec2"}

\* C8: an Option payload feeds 1 then the inner data when Some and 0 alone when
\* None; a Vec payload feeds its length then each element's data in index
\* order; two such payloads of one variant feed identical data only if they
\* are identical bit for bit.
C8_CompositeRules ==
    BothHashed =>
        /\ \A n \in 1..2 : hashed[n][1].variant \in Composite =>
              Tail(state[n]) = CompositeData(hashed[n][1])
        /\ (/\ HashedA.variant \in Composite
            /\ HashedA.variant = HashedB.variant
            /\ state[1] = state[2]) => HashedA.payload = HashedB.payload

C8_Witness ==
    /\ BothHashed
    /\ Same(HashedA, TaggedValue("VecF64", <<PosZero, NegZero>>))
    /\ Same(HashedB, TaggedValue("VecF64", <<NegZero, PosZero>>))
    /\ state[1] # state[2]

\* C9: two RenderOutput values with equal data feed identical data whatever
\* their metadata, and what is fed is the data's hash alone.
C9_MetadataIgnored ==
    (BothHashed /\ HashedA.variant = "RenderOutput" /\ HashedB.variant = "RenderOutput") =>
        /\ HashedA.payload.data = HashedB.payload.data => state[1] = state[2]
        /\ \A n \in 1..2 :
              Tail(state[n]) = RenderOutputType_hash(hashed[n][1].payload.data, <<>>)

C9_Witness ==
    /\ BothHashed
    /\ HashedA.variant = "RenderOutput"
    /\ HashedB.variant = "RenderOutput"
    /\ HashedA.payload.data = HashedB.payload.data
    /\ HashedA.payload.metadata # HashedB.payload.metadata
    /\ state[1] = state[2]

-----------------------------------------------------------------------------
(* Properties of the literal-text operations (SpecText).                   *)

\* two Options of TaggedValue are the same Option
SameOption(a, b) ==
    \/ a = None /\ b = None
    \/ a # None /\ b # None /\ Same(a[1], b[1])

IsWrapper(t) == t.kind \in {"Fn", "Future"}

RECURSIVE Innermost(_)
Innermost(t) == IF IsWrapper(t) THEN Innermost(t.output[1]) ELSE t

\* the enumerated texts that are literals of the documented grammar of a type:
\* standard numeric and boolean literals, two comma-separated numbers, a quoted
\* string of 6 or 8 hex digits with an optional '#', a Color:: or ReferencePoint::
\* constant
NumberGrammar == {S(<<"0">>), S(<<"1">>), S(<<"2">>), S(<<"+", "1">>), S(<<"-", "0">>),
                 S(<<"-", "1">>), S(<<"1", ".", "0">>), S(<<"N", "a", "N">>),
                 S(<<"i", "n", "f">>)}
UnsignedGrammar == {S(<<"0">>), S(<<"1">>), S(<<"2">>), S(<<"+", "1">>)}
BoolGrammar == {S(<<"t", "r", "u", "e">>), S(<<"f", "a", "l", "s", "e">>)}
DVec2Grammar == {S(<<"1", ",", "2">>), S(<<" ", "1", " ", ",", " ", "2", " ">>)}
ColorGrammar ==
    {S(<<"\"", "f", "f", "0", "0", "0", "0", "\"">>),
     S(<<"\"", "#", "f", "f", "0", "0", "0", "0", "\"">>),
     S(<<"\"", "#", "f", "f", "0", "0", "0", "0", "f", "f", "\"">>),
     S(<<"\"", "F", "F", "0", "0", "0", "0", "F", "F", "\"">>),
     S(<<"\"", "#", "f", "f", "0", "0", "0", "0", "8", "0", "\"">>),
     S(<<"C", "o", "l", "o", "r", ":", ":", "B", "L", "A", "C", "K">>),
     S(<<"C", "o", "l", "o", "r", ":", ":", "W", "H", "I", "T", "E">>),
     S(<<"C", "o", "l", "o", "r", ":", ":", "R", "E", "D">>),
     S(<<"C", "o", "l", "o", "r", ":", ":", "G", "R", "E", "E", "N">>),
     S(<<"C", "o", "l", "o", "r", ":", ":", "B", "L", "U", "E">>),
     S(<<"C", "o", "l", "o", "r", ":", ":", "Y", "E", "L", "L", "O", "W">>),
     S(<<"C", "o", "l", "o", "r", ":", ":", "C", "Y", "A", "N">>),
     S(<<"C", "o", "l", "o", "r", ":", ":", "M", "A", "G", "E", "N", "T", "A">>),
     S(<<"C", "o", "l", "o", "r", ":", ":", "T", "R", "A", "N", "S", "P", "A", "R", "E", "N", "T">>)}
ReferencePointGrammar == {S(<<"R", "e", "f", "e", "r", "e", "n", "c", "e", "P", "o", "i", "n", "t", ":", ":", "C", "e", "n", "t", "e", "r">>),
                          S(<<"R", "e", "f", "e", "r", "e", "n", "c", "e", "P", "o", "i", "n", "t", ":", ":", "T", "o", "p", "L", "e", "f", "t">>)}

TypesWithGrammar == {"f64", "u64", "u32", "bool", "DVec2", "Color", "Option<Color>", "Fill", "ReferencePoint"}

Grammar(T) ==
    CASE T = "f64" -> NumberGrammar
      [] T \in {"u64", "u32"} -> UnsignedGrammar
      [] T = "bool" -> BoolGrammar
      [] T = "DVec2" -> DVec2Grammar
      [] T \in {"Color", "Option<Color>", "Fill"} -> ColorGrammar
      [] T = "ReferencePoint" -> ReferencePointGrammar

\* the last call parsed a text for a type that has a grammar
ParsedFor(types) ==
    /\ parsed.op # "none"
    /\ Innermost(parsed.ty).kind = "Concrete"
    /\ Innermost(parsed.ty).id # None
    /\ Innermost(parsed.ty).id[1] \in types

\* the text of the last call is not a literal of its type's grammar
Malformed ==
    /\ ParsedFor(TypesWithGrammar)
    /\ parsed.string \notin Grammar(Innermost(parsed.ty).id[1])

\* a log::error! record of the last call names the text it was given
Logged == \E i \in 1..Len(parsed.log) : parsed.log[i][2] = parsed.string

\* C12: a text that is not a literal of the descriptor's grammar gives None, and
\* a diagnostic naming the text has been logged when the call returns
C12_MalformedLoggedNone == Malformed => (parsed.value = None /\ Logged)

\* C13: against a Color descriptor a text gives Some(color) exactly when it is a
\* quoted string of 6 or 8 hex digits with an optional '#' or Color::NAME with
\* NAME one of the nine constants; every other text gives None
C13_ColorGrammarExact ==
    ParsedFor({"Color"}) => ((parsed.value # None) <=> (parsed.string \in ColorGrammar))

\* C14: against a DVec2 descriptor a text gives Some exactly when it is two
\* comma-separated numeric literals, whitespace around them allowed; fewer or
\* more than two components, or a component that is no number, give None
C14_DVec2GrammarExact ==
    ParsedFor({"DVec2"}) => ((parsed.value # None) <=> (parsed.string \in DVec2Grammar))

\* the variants to_primitive_string has an arm for
PrimitiveVariants == {"None", "String", "U32", "U64", "F64", "Bool", "BlendMode", "Color"}

\* C15: to_primitive_string returns a String for the variants None, String, U32,
\* U64, F64, Bool, BlendMode and Color, and panics for every other variant
C15_RendersOnlyPrimitives ==
    rendered.op # "none" =>
        /\ rendered.out.tag \in {"Ok", "panic"}
        /\ (rendered.out.tag = "Ok") <=> (rendered.value.variant \in PrimitiveVariants)

\* to_primitive_string was called on a variant outside the list and panicked
C15_Witness ==
    /\ rendered.op # "none"
    /\ rendered.value.variant = "DVec2"
    /\ rendered.out.tag = "panic"

\* the rendering of a value has been parsed against the value's own descriptor
RoundTripped == parsed.op # "none" /\ rendered.op # "none"

\* C16 as stated: parsing the rendering of a None, String, U32, U64, F64, Bool or
\* Color value against its own descriptor returns Some of that value
C16_RoundTripAll ==
    (RoundTripped /\ rendered.value.variant \in {"None", "String", "U32", "U64", "F64", "Bool", "Color"})
        => SameOption(parsed.value, Some(rendered.value))

\* C16 amended: the round trip returns Some of the value for None and Bool, and
\* does not for String (the quotes stay in the parsed string), U32, U64, F64
\* (the type suffix is no numeric literal) and Color (the debug form is no
\* color literal)
C16_RoundTripUnitBool ==
    RoundTripped =>
        /\ rendered.value.variant \in {"None", "Bool"}
              => SameOption(parsed.value, Some(rendered.value))
        /\ rendered.value.variant \in {"String", "U32", "U64", "F64", "Color"}
              => ~SameOption(parsed.value, Some(rendered.value))

\* a Bool was rendered and parsed back
C16_Witness ==
    /\ RoundTripped
    /\ rendered.value.variant = "Bool"
    /\ parsed.value # None

-----------------------------------------------------------------------------
(* Properties of the value-upcast adapter (SpecNode).                      *)

\* two erased containers hold the same value of the same type
SameContainer(a, b) == a.kind = b.kind /\ a.type_id = b.type_id /\ a.content = b.content

\* every resolved future holds to_dynany of the node's TaggedValue
ResolvesToValue ==
    \A k \in 1..Len(futures) :
        futures[k].ready => SameContainer(futures[k].output[1], to_dynany(node[1].value.value))

\* C17: the future of every eval call resolves to to_dynany of the TaggedValue
\* the node was built with, whatever the input, and no eval call or poll changes
\* the node's stored value or its precomputed hash
C17_UpcastEval ==
    /\ [](ResolvesToValue)
    /\ [][futures' # futures => node' = node]_vars

\* a future resolved to the node's value although eval was given a value of another type
C17_Witness ==
    \E k \in 1..Len(futures) :
        /\ futures[k].ready
        /\ futures[k].input.type_id # futures[k].output[1].type_id
        /\ node[1].value.hash # <<>>

-----------------------------------------------------------------------------
(* Properties of the desktop frame buffer (SpecFrame).                     *)

\* width * height * 4 as a number, at full precision
ExactSize == full_mul(full_mul(frame.width, frame.height), <<4>>)

\* the length of the buffer is exactly width * height * 4
SizeMatches == ExactSize = [i \in 1..Len(ExactSize) |-> IF i <= USIZE_BYTES THEN usize(frame.buffer.len)[i] ELSE 0]

\* C18: FrameBufferRef::new returns Ok exactly when buffer.len() is width * height * 4,
\* the accessors of the Ok value returning the buffer, width and height given;
\* otherwise it returns InvalidSize with the actual length as buffer_size and
\* width * height * 4 as expected_size
C18_SizeValidated ==
    frame.op = "new" =>
        IF SizeMatches
        THEN /\ frame.result.tag = "Ok"
             /\ FrameBufferRef_buffer(frame.result.value) = frame.buffer
             /\ FrameBufferRef_width(frame.result.value) = frame.width
             /\ FrameBufferRef_height(frame.result.value) = frame.height
        ELSE /\ frame.result.tag = "Err"
             /\ frame.result.msg.buffer_size = usize(frame.buffer.len)
             /\ fits(ExactSize)
             /\ frame.result.msg.expected_size = SubSeq(ExactSize, 1, USIZE_BYTES)


-----------------------------------------------------------------------------
(* The desktop application's callbacks.                                    *)

\* the callback that returned last was window_event for RedrawRequested
Redrawn == last.handler = "window_event" /\ last.event = "RedrawRequested"

\* ... and it called render, which returned the given outcome
RenderReturned(results) == Redrawn /\ last.render # None /\ last.render[1] \in results

\* C19: a RedrawRequested whose render fails with OutOfMemory requests the
\* event loop's exit; one whose render fails with Lost or any other error logs
\* it, does not exit and leaves the graphics state as it was; and a
\* RedrawRequested delivered while the graphics state exists, after a failed
\* render included, calls render again
C19_SurfaceErrors ==
    /\ [](/\ RenderReturned({"OutOfMemory"}) => (last.exit /\ loop.state = "exiting")
          /\ RenderReturned(SurfaceResults \ {"Ok", "OutOfMemory"}) =>
                (/\ last.logs # <<>>
                 /\ ~last.exit
                 /\ loop.state = "running"
                 /\ app.graphics_state # None)
          /\ (Redrawn /\ app.graphics_state # None) => last.render # None)
    /\ [][Redrawn' => app'.graphics_state = app.graphics_state]_vars

\* a RedrawRequested rendered right after one whose render had failed with Lost
C19_Witness == Redrawn /\ last.render # None /\ last.after = Some("Lost")

\* a RedrawRequested whose render failed with OutOfMemory has stopped the loop
C19_WitnessOutOfMemory == RenderReturned({"OutOfMemory"}) /\ loop.state = "exiting"


\* C20: the replacement of the application io is started only by resumed, which
\* returns only once the replacement has completed; no other callback starts
\* it, and the replacement is never in progress while the NodeGraphRan arm is
\* inside poll_node_graph_evaluation
C20_SwapOnlyInResumed ==
    /\ [](/\ executor.swap = "running" => handler = "resumed"
          /\ ~(executor.swap = "running" /\ executor.polling)
          /\ executor.invoked_by \in {"none", "resumed"})
    /\ [][(executor.swap = "idle" /\ executor'.swap = "running") =>
              (handler = "none" /\ handler' = "resumed")]_vars
    /\ [][(handler = "resumed" /\ handler' # "resumed") => executor'.swap = "idle"]_vars

\* the NodeGraphRan arm is polling the evaluation after resumed has replaced the
\* application io
C20_Witness == executor.polling /\ executor.invoked_by = "resumed" /\ executor.swap = "idle"


\* resumed has been called
ResumedHasRun == executor.invoked_by = "resumed"

\* the callback that returned last, or panicked, was user_event for a
\* MessageReceived carrying BoundsOfViewports
BoundsHandled == last.handler = "user_event" /\ last.event = "BoundsOfViewports"

\* C21: window is Some exactly when graphics_state is Some, both are None before
\* the first resumed and both Some after it, and a MessageReceived carrying
\* BoundsOfViewports that is handled after resumed has run does not panic
C21_CreatedTogether ==
    /\ (app.window = None) <=> (app.graphics_state = None)
    /\ ResumedHasRun <=> (app.window # None)
    /\ (BoundsHandled /\ ResumedHasRun) => (~last.panic /\ loop.state # "panicked")

\* BoundsOfViewports handled after resumed: offset and scale have been set
C21_Witness ==
    /\ BoundsHandled
    /\ ResumedHasRun
    /\ last.dispatched = 1
    /\ app.graphics_state # None
    /\ app.graphics_state[1].viewport_scale.per = WindowSize


-----------------------------------------------------------------------------
(* The desktop presentation state.                                         *)

\* the texture ids a bind group made from the last bound textures binds: slot 0
\* the last UI texture or, if none was bound, the last viewport texture; slot 1
\* the other way round
LatestBindings ==
    <<unwrap_or(bound.ui, unwrap_or(bound.viewport, [id |-> 0])).id,
      unwrap_or(bound.viewport, unwrap_or(bound.ui, [id |-> 0])).id>>

\* C22: bind_group is Some exactly when ui_texture or viewport_texture is Some;
\* it then binds the latest UI texture (the viewport texture if no UI texture
\* was ever bound) and the latest viewport texture (the UI texture if no
\* viewport texture was ever bound); render draws only when bind_group is Some
C22_BindGroupLatest ==
    /\ (graphics.bind_group # None) <=>
          (graphics.ui_texture # None \/ graphics.viewport_texture # None)
    /\ graphics.ui_texture = bound.ui
    /\ graphics.viewport_texture = bound.viewport
    /\ graphics.bind_group # None => graphics.bind_group[1] = LatestBindings
    /\ (drawn.op = "render" /\ drawn.outcome.drew) => drawn.bind_group # None

\* both textures were bound, the UI texture replaced by another since, and a
\* render drew with the bind group
C22_Witness ==
    /\ bound.ui # None
    /\ bound.viewport # None
    /\ graphics.bind_group = Some(<<2, 1>>)
    /\ graphics.config # WindowSize
    /\ drawn.op = "render"
    /\ drawn.outcome.drew
    /\ drawn.bind_group = Some(<<1, 1>>)


-----------------------------------------------------------------------------
(* Browser work scheduling.                                                *)

\* the step is a callback that has returned as the named handler; the clock
\* does not advance inside a callback
Returns(name) == last'.handler = name /\ loop'.now = loop.now

\* 10 ms after the clock's reading
TenMsAhead == loop.now + Duration_from_millis(10)

\* C23: about_to_wait sets the wake deadline to the pending cef_schedule if
\* that is earlier than now + 10 ms and to now + 10 ms otherwise, so it is never
\* more than 10 ms ahead nor later than a pending instant; cef_schedule is
\* cleared only by new_events, only when its instant is strictly in the past and
\* together with cef work; ScheduleBrowserWork(instant) does cef work at once
\* when instant <= now and otherwise records instant as the pending schedule
C23_BrowserWorkScheduling ==
    /\ [][Returns("about_to_wait") =>
             /\ loop'.control_flow # None
             /\ loop'.control_flow[1] <= TenMsAhead
             /\ app.cef_schedule # None => loop'.control_flow[1] <= app.cef_schedule[1]
             /\ loop'.control_flow[1] = TenMsAhead
                   \/ (app.cef_schedule # None /\ loop'.control_flow[1] = app.cef_schedule[1])
             /\ app' = app]_vars
    /\ [][(app.cef_schedule # None /\ app'.cef_schedule = None) =>
             /\ Returns("new_events")
             /\ app.cef_schedule[1] < loop.now
             /\ last'.work = 1]_vars
    /\ [][Returns("new_events") =>
             (app'.cef_schedule = None <=>
                 (app.cef_schedule = None \/ app.cef_schedule[1] < loop.now))]_vars
    /\ [][(Returns("user_event") /\ last'.event = "ScheduleBrowserWork") =>
             IF last'.instant[1] <= loop.now
             THEN last'.work = 1 /\ app' = app
             ELSE last'.work = 0 /\ app'.cef_schedule = last'.instant]_vars

\* after about_to_wait armed a deadline, new_events found the pending instant in
\* the past, cleared it and did the browser's work
C23_Witness ==
    /\ last.handler = "new_events"
    /\ last.work = 1
    /\ app.cef_schedule = None
    /\ loop.control_flow # None
    /\ loop.control_flow[1] < loop.now

\* a ScheduleBrowserWork event whose instant lay ahead was recorded
C23_WitnessRecorded ==
    /\ last.event = "ScheduleBrowserWork"
    /\ last.work = 0
    /\ app.cef_schedule = last.instant
    /\ last.instant[1] > loop.now

====
